---- MODULE Spec2Model ----
(***************************************************************************)
(* A model of the core of the rsb runtime (oodx/rebel):                    *)
(*   - the Context store and its variable expansion (src/src/context.rs),  *)
(*   - the Stream pipeline stage sed_block (src/src/streams.rs),           *)
(*   - job control: job!(background/wait) and wait_on_job                  *)
(*     (src/src/macros/jobs_events.rs, src/src/os.rs), with the logging    *)
(*     helper the job macros call (src/src/utils.rs).                      *)
(* A string is a sequence of one-character strings.                        *)
(***************************************************************************)
EXTENDS Integers, Sequences, FiniteSets, TLC

VARIABLES
    ctx,        \* CTX.vars: the Context's map, variable name -> value
    xpc,        \* the Context caller: "idle", or "expanded" (a result is in hand)
    xText,      \* the text given to the last expand_vars call
    xOut,       \* what that call returned
    lines,      \* Stream.lines of the pipeline being built
    stage,      \* the last stage applied to it, with its arguments and input
    nStages,    \* how many stages the pipeline has gone through
    JOB_COUNTER,\* the value behind os::JOB_COUNTER
    JOBS,       \* the map behind os::JOBS: job id -> JobHandle
    mutex,      \* the Mutex of each static: its holder and its poison flag
    worker,     \* per job id, the thread spawned by job!(background: ..)
    chan,       \* per job id, the mpsc channel from that thread to the JobHandle
    pc,         \* where each calling thread is
    loc,        \* the locals of the macro arm each calling thread is in
    taken,      \* the ids some wait_on_job call has removed from JOBS
    files,      \* the file system: path -> content
    seen,       \* the lines the closure given to Stream::each was called with
    process,    \* the process: "running", or how it ended
    CALL_STACK, \* the Vec behind context::CALL_STACK, last frame pushed at the end
    dpc,        \* where each thread is in dispatch! / pre_dispatch!
    dloc,       \* the locals of the dispatch macro each thread is in
    self_args,  \* Args.args: the arguments a handler was given
    self_processed, \* Args.processed: the positions marked processed
    called,     \* the last call made on the Args and what it returned
    CTX,        \* the Mutex of context::CTX: the thread that holds its guard
    spc,        \* where each thread is in a call that locks CTX
    sloc,       \* the locals of that call
    lpc,        \* where each process is in create_lock / remove_lock
    lloc        \* the locals of create_lock in each process

ctxVars == <<ctx, xpc, xText, xOut>>
streamVars == <<lines, stage, nStages>>
jobVars == <<JOB_COUNTER, JOBS, mutex, worker, chan, pc, loc, taken>>
envVars == <<files, seen, process>>
callVars == <<CALL_STACK, dpc, dloc>>
argVars == <<self_args, self_processed, called>>
shellVars == <<CTX, spc, sloc>>
lockVars == <<lpc, lloc>>
restVars == <<argVars, shellVars, lockVars>>
vars == <<ctxVars, streamVars, jobVars, envVars, callVars, restVars>>

\* ---------------------------------------------------------------- bounds
MaxLen == 4         \* longest template given to expand_vars
MaxLines == 3       \* most lines of a string given to Stream::from_string
MaxStages == 2      \* most stages chained on one Stream
MaxJobs == 2        \* most jobs started with job!(background: ..)
MaxArgs == 3        \* most arguments given to Args::new

\* ---------------------------------------------------------------- strings
\* str::contains: p occurs in s as a contiguous run (the empty p always does)
Contains(s, p) ==
    \E i \in 0..(Len(s) - Len(p)) : SubSeq(s, i + 1, i + Len(p)) = p

\* all strings over the characters cs of length at most n
StringsUpTo(cs, n) == UNION {[1..k -> cs] : k \in 0..n}

\* ---------------------------------------------------------------- Context
\* the characters of the model's templates: '$', the braces, two letters,
\* a digit and a character that is no part of an identifier
Chars == {"$", "{", "}", "A", "B", "1", "-"}
\* [A-Za-z_] and [A-Za-z0-9_] of the two regexes, cut to Chars
IdentStart == {"A", "B", "_"}
IdentCont == IdentStart \cup {"1"}

Names == {<<"A">>, <<"B">>}
Values == {<<>>, <<"-">>, <<"B">>, <<"$", "B">>, <<"$", "{", "B", "}">>}
Templates == StringsUpTo(Chars, MaxLen)

\* Context::get: the value, or the empty string when the key is absent
get(M, key) == IF key \in DOMAIN M THEN M[key] ELSE <<>>

\* Context::has
has(M, key) == key \in DOMAIN M

\* a set that forgets the other keys
set_forgets_others(M, key, value) == [k \in {key} |-> value]

\* Context::set: overwrite or insert
set(M, key, value) == [k \in DOMAIN M \cup {key} |-> IF k = key THEN value ELSE M[k]]

\* the length of the longest run of [A-Za-z0-9_] starting at s[i]
RECURSIVE IdentRun(_, _)
IdentRun(s, i) ==
    IF i <= Len(s) /\ s[i] \in IdentCont THEN 1 + IdentRun(s, i + 1) ELSE 0

\* braced_re = \$\{([A-Za-z_][A-Za-z0-9_]*)\} anchored at s[i]: the length of
\* the match, 0 when there is none
braced_re(s, i) ==
    IF i + 2 <= Len(s) /\ s[i] = "$" /\ s[i + 1] = "{" /\ s[i + 2] \in IdentStart
    THEN LET n == IdentRun(s, i + 2)
         IN  IF i + 2 + n <= Len(s) /\ s[i + 2 + n] = "}" THEN n + 3 ELSE 0
    ELSE 0

\* simple_re = \$([A-Za-z_][A-Za-z0-9_]*) anchored at s[i]
simple_re(s, i) ==
    IF i + 1 <= Len(s) /\ s[i] = "$" /\ s[i + 1] \in IdentStart
    THEN 1 + IdentRun(s, i + 1)
    ELSE 0

\* braced_re.replace_all(result, |caps| vars.get(caps[1]) or ""), from s[i] on:
\* leftmost matches, left to right, the replacement text is not scanned again
RECURSIVE BracedPass(_, _, _)
BracedPass(M, s, i) ==
    IF i > Len(s) THEN <<>>
    ELSE LET n == braced_re(s, i)
         IN  IF n > 0
             THEN get(M, SubSeq(s, i + 2, i + n - 2)) \o BracedPass(M, s, i + n)
             ELSE <<s[i]>> \o BracedPass(M, s, i + 1)

\* SimplePass with Regex::replace in place of Regex::replace_all: only the
\* leftmost match is replaced
SimplePassFirstOnly(M, s, i) ==
    IF \E j \in i..Len(s) : simple_re(s, j) > 0
    THEN LET j == CHOOSE j \in i..Len(s) :
                      /\ simple_re(s, j) > 0
                      /\ \A h \in i..(j - 1) : simple_re(s, h) = 0
             n == simple_re(s, j)
         IN  SubSeq(s, i, j - 1) \o get(M, SubSeq(s, j + 1, j + n - 1))
                 \o SubSeq(s, j + n, Len(s))
    ELSE SubSeq(s, i, Len(s))

\* simple_re.replace_all(result, |caps| vars.get(caps[1]) or "")
RECURSIVE SimplePass(_, _, _)
SimplePass(M, s, i) ==
    IF i > Len(s) THEN <<>>
    ELSE LET n == simple_re(s, i)
         IN  IF n > 0
             THEN get(M, SubSeq(s, i + 1, i + n - 1)) \o SimplePass(M, s, i + n)
             ELSE <<s[i]>> \o SimplePass(M, s, i + 1)

\* Context::expand: the braced pass over the text, then the simple pass over
\* the result of the braced pass
expand(M, text) == SimplePass(M, BracedPass(M, text, 1), 1)

\* set_var
set_var(key, value) ==
    /\ xpc = "idle"
    /\ ctx' = set(ctx, key, value)
    /\ UNCHANGED <<xpc, xText, xOut>>

\* unset_var
unset_var(key) ==
    /\ xpc = "idle"
    /\ key \in DOMAIN ctx
    /\ ctx' = [k \in DOMAIN ctx \ {key} |-> ctx[k]]
    /\ UNCHANGED <<xpc, xText, xOut>>

\* expand_vars: CTX.lock().unwrap().expand(text)
expand_vars(text) ==
    /\ xpc = "idle"
    /\ xpc' = "expanded"
    /\ xText' = text
    /\ xOut' = expand(ctx, text)
    /\ UNCHANGED ctx

\* get_var: CTX.lock().unwrap().get(key)
get_var(key) ==
    /\ xpc = "idle"
    /\ xpc' = "got"
    /\ xText' = key
    /\ xOut' = get(ctx, key)
    /\ UNCHANGED ctx

\* has_var: CTX.lock().unwrap().has(key)
has_var(key) ==
    /\ xpc = "idle"
    /\ xpc' = "asked"
    /\ xText' = key
    /\ xOut' = has(ctx, key)
    /\ UNCHANGED ctx

\* the caller takes the value of get_var or has_var and goes on
QueryReturn ==
    /\ xpc \in {"got", "asked"}
    /\ xpc' = "idle"
    /\ xText' = <<>>
    /\ xOut' = <<>>
    /\ UNCHANGED ctx

\* the caller takes the returned string and goes on
ExpandReturn ==
    /\ xpc = "expanded"
    /\ xpc' = "idle"
    /\ xText' = <<>>
    /\ xOut' = <<>>
    /\ UNCHANGED ctx

\* Context::new, and no expand_vars call under way
InitCtx ==
    /\ ctx = <<>>
    /\ xpc = "idle"
    /\ xText = <<>>
    /\ xOut = <<>>

\* ----------------------------------------------------------------- Stream
NL == "\n"
CR == "\r"

\* [T]::join(sep) on strings
RECURSIVE join(_, _)
join(ls, sep) ==
    IF ls = <<>> THEN <<>>
    ELSE IF Len(ls) = 1 THEN ls[1]
    ELSE ls[1] \o sep \o join(Tail(ls), sep)

\* str::replace with the empty pattern: `to` at every character boundary
RECURSIVE ReplaceEmpty(_, _)
ReplaceEmpty(s, to) ==
    IF s = <<>> THEN to ELSE to \o <<s[1]>> \o ReplaceEmpty(Tail(s), to)

\* str::replace(from, to): every non-overlapping match, left to right
RECURSIVE replace(_, _, _)
replace(s, from, to) ==
    IF from = <<>> THEN ReplaceEmpty(s, to)
    ELSE IF ~Contains(s, from) THEN s
    ELSE LET i == CHOOSE i \in 1..Len(s) :
                      /\ SubSeq(s, i, i + Len(from) - 1) = from
                      /\ \A h \in 1..(i - 1) : SubSeq(s, h, h + Len(from) - 1) # from
         IN  SubSeq(s, 1, i - 1) \o to
                 \o replace(SubSeq(s, i + Len(from), Len(s)), from, to)

\* str::lines: the runs between line feeds, a carriage return before the
\* line feed dropped with it; nothing for the empty rest after the last one
RECURSIVE str_lines(_)
str_lines(s) ==
    IF s = <<>> THEN <<>>
    ELSE IF \E i \in 1..Len(s) : s[i] = NL
         THEN LET i == CHOOSE i \in 1..Len(s) :
                           s[i] = NL /\ \A h \in 1..(i - 1) : s[h] # NL
                  l == SubSeq(s, 1, i - 1)
              IN  <<IF l # <<>> /\ l[Len(l)] = CR THEN SubSeq(l, 1, Len(l) - 1) ELSE l>>
                      \o str_lines(SubSeq(s, i + 1, Len(s)))
         ELSE <<s>>

\* Stream::from_string
from_string(content) == str_lines(content)

\* Stream::to_string
to_string(ls) == join(ls, <<NL>>)

\* SedBlockStep with the end marker left in the closed block
SedBlockStepKeepsEnd(st, line, start_pattern, end_pattern, replacement) ==
    IF ~st.in_block /\ Contains(line, start_pattern)
    THEN [st EXCEPT !.in_block = TRUE, !.buffer = Append(@, line)]
    ELSE IF st.in_block /\ Contains(line, end_pattern)
    THEN LET block_content == join(Append(st.buffer, line), <<NL>>)
         IN  [in_block |-> FALSE,
              buffer |-> <<>>,
              result_lines |-> Append(st.result_lines,
                  replace(block_content, start_pattern, replacement))]
    ELSE IF st.in_block
    THEN [st EXCEPT !.buffer = Append(@, line)]
    ELSE [st EXCEPT !.result_lines = Append(@, line)]

\* one turn of the loop of sed_block: st = the locals result_lines, buffer and
\* in_block, line = the line of self.lines the loop is at
SedBlockStep(st, line, start_pattern, end_pattern, replacement) ==
    IF ~st.in_block /\ Contains(line, start_pattern)
    THEN [st EXCEPT !.in_block = TRUE, !.buffer = Append(@, line)]
    ELSE IF st.in_block /\ Contains(line, end_pattern)
    THEN LET block_content == join(Append(st.buffer, line), <<NL>>)
         IN  [in_block |-> FALSE,
              buffer |-> <<>>,
              result_lines |-> Append(st.result_lines,
                  replace(replace(block_content, start_pattern, replacement),
                          end_pattern, <<>>))]
    ELSE IF st.in_block
    THEN [st EXCEPT !.buffer = Append(@, line)]
    ELSE [st EXCEPT !.result_lines = Append(@, line)]

\* the loop of sed_block over ls[i..]
RECURSIVE SedBlockLoop(_, _, _, _, _, _)
SedBlockLoop(st, ls, i, start_pattern, end_pattern, replacement) ==
    IF i > Len(ls) THEN st
    ELSE SedBlockLoop(SedBlockStep(st, ls[i], start_pattern, end_pattern, replacement),
                      ls, i + 1, start_pattern, end_pattern, replacement)

\* sed_block without its last step: the lines of a block left open are lost
sed_block_drops_open(ls, start_pattern, end_pattern, replacement) ==
    SedBlockLoop([in_block |-> FALSE, buffer |-> <<>>, result_lines |-> <<>>],
                 ls, 1, start_pattern, end_pattern, replacement).result_lines

\* Stream::sed_block: the loop, then a block left open is appended as it is
sed_block(ls, start_pattern, end_pattern, replacement) ==
    LET st == SedBlockLoop([in_block |-> FALSE, buffer |-> <<>>, result_lines |-> <<>>],
                           ls, 1, start_pattern, end_pattern, replacement)
    IN  IF st.buffer # <<>> THEN st.result_lines \o st.buffer ELSE st.result_lines

\* the strings of examples/showcase.rs, sed_block_test
ConfigOpen ==
    <<"<", "c", "o", "n", "f", "i", "g", ">">>
ConfigClose ==
    <<"<", "/", "c", "o", "n", "f", "i", "g", ">">>
NoSuchEnd ==
    <<"N", "O", "_", "S", "U", "C", "H", "_", "E", "N", "D">>
SedExpression ==
    <<"s", "/", "o", "l", "d", "_", "v", "a", "l", "u", "e", "/", "n", "e",
    "w", "_", "v", "a", "l", "u", "e", "/", "g">>
OldSetting ==
    <<"<", "s", "e", "t", "t", "i", "n", "g", ">", "o", "l", "d", "_", "v",
    "a", "l", "u", "e", "<", "/", "s", "e", "t", "t", "i", "n", "g", ">">>
NewSetting ==
    <<"<", "s", "e", "t", "t", "i", "n", "g", ">", "n", "e", "w", "_", "v",
    "a", "l", "u", "e", "<", "/", "s", "e", "t", "t", "i", "n", "g", ">">>
OtherContent ==
    <<" ", " ", " ", " ", "#", " ", "O", "t", "h", "e", "r", " ", "f", "i",
    "l", "e", " ", "c", "o", "n", "t", "e", "n", "t">>
MoreContent ==
    <<" ", " ", " ", " ", "#", " ", "M", "o", "r", "e", " ", "c", "o", "n",
    "t", "e", "n", "t">>
Indent ==
    <<" ", " ", " ", " ">>

ShowcaseContent ==
    join(<<<<>>, OtherContent, Indent \o ConfigOpen, Indent \o Indent \o OldSetting,
           Indent \o ConfigClose, MoreContent, Indent>>, <<NL>>)

\* the lines the model's inputs are made of, over a character of the start
\* marker, a character of the end marker and a third character
LineSamples == {<<>>, <<"x">>, <<"a">>, <<"b">>, <<"a", "b">>, <<"x", "a", "o">>}

\* the strings given to Stream::from_string
Contents ==
    {join(ls, <<NL>>) : ls \in UNION {[1..n -> LineSamples] : n \in 0..MaxLines}}
        \cup {ShowcaseContent}

\* the (start_pattern, end_pattern, replacement) given to sed_block; the
\* markers are not empty
SedArgs ==
    { <<<<"a">>, <<"b">>, <<"x">>>>,
      <<<<"a">>, <<"b">>, <<>>>>,
      <<<<"a">>, <<"b">>, <<"b", "x">>>>,
      <<<<"a">>, <<"a">>, <<"x">>>>,
      <<<<"a", "b">>, <<"b">>, <<"a">>>>,
      <<<<"a">>, <<"b">>, <<"s", "/", "o", "/", "n", "/", "g">>>>,
      <<ConfigOpen, ConfigClose, SedExpression>>,
      <<ConfigOpen, NoSuchEnd, SedExpression>> }

NoStage == [op |-> "none"]

\* Stream::new
NoStream ==
    /\ lines = <<>>
    /\ stage = NoStage
    /\ nStages = 0

\* pipe!(content) / Stream::from_string(content)
InitStream ==
    /\ \E content \in Contents : lines = from_string(content)
    /\ stage = NoStage
    /\ nStages = 0

\* .sed_block(start_pattern, end_pattern, replacement)
SedBlock(args) ==
    /\ nStages < MaxStages
    /\ lines' = sed_block(lines, args[1], args[2], args[3])
    /\ stage' = [op |-> "sed_block", input |-> lines, start_pattern |-> args[1],
                 end_pattern |-> args[2], replacement |-> args[3]]
    /\ nStages' = nStages + 1

\* ---------------------------------------------------------- Stream stages
\* the byte of a character: String's Ord compares the UTF-8 bytes
Byte(c) ==
    CASE c = NL -> 10 [] c = CR -> 13 [] c = "," -> 44 [] c = "B" -> 66
      [] c = "a" -> 97 [] c = "b" -> 98 [] c = "o" -> 111 [] c = "x" -> 120
      [] OTHER -> 36

\* a <= b for Strings: bytewise, a proper prefix first
RECURSIVE StrLeq(_, _)
StrLeq(a, b) ==
    IF a = <<>> THEN TRUE
    ELSE IF b = <<>> THEN FALSE
    ELSE IF Byte(a[1]) # Byte(b[1]) THEN Byte(a[1]) < Byte(b[1])
    ELSE StrLeq(Tail(a), Tail(b))

\* l put into the sorted ls behind every element that is not greater
RECURSIVE InsertSorted(_, _)
InsertSorted(l, ls) ==
    IF ls = <<>> THEN <<l>>
    ELSE IF StrLeq(ls[1], l) THEN <<ls[1]>> \o InsertSorted(l, Tail(ls))
    ELSE <<l>> \o ls

\* sort without an effect: the lines as they are
sort_keeps_order(ls) == ls

\* Stream::sort: self.lines.sort(), a stable sort by String's Ord
RECURSIVE sort(_)
sort(ls) ==
    IF ls = <<>> THEN <<>>
    ELSE InsertSorted(ls[Len(ls)], sort(SubSeq(ls, 1, Len(ls) - 1)))

\* uniq as unique: every repeated line removed, adjacent or not
uniq_drops_all_repeats(ls) ==
    LET first == {i \in 1..Len(ls) : \A h \in 1..(i - 1) : ls[h] # ls[i]}
        F[i \in 0..Len(ls)] ==
            IF i = 0 THEN <<>>
            ELSE IF i \in first THEN Append(F[i - 1], ls[i]) ELSE F[i - 1]
    IN  F[Len(ls)]

\* Stream::uniq: self.lines.dedup(), a line equal to the one before it goes
RECURSIVE uniq(_)
uniq(ls) ==
    IF Len(ls) <= 1 THEN ls
    ELSE LET rest == uniq(SubSeq(ls, 1, Len(ls) - 1))
         IN  IF ls[Len(ls)] = ls[Len(ls) - 1] THEN rest ELSE Append(rest, ls[Len(ls)])

\* Stream::unique: retain(|line| seen.insert(line)), from ls[i] on with the
\* lines seen so far
RECURSIVE UniqueFrom(_, _, _)
UniqueFrom(ls, i, seenLines) ==
    IF i > Len(ls) THEN <<>>
    ELSE IF ls[i] \in seenLines THEN UniqueFrom(ls, i + 1, seenLines)
    ELSE <<ls[i]>> \o UniqueFrom(ls, i + 1, seenLines \cup {ls[i]})

unique(ls) == UniqueFrom(ls, 1, {})

\* str::split(delimiter): the pieces between the matches of the delimiter,
\* leftmost first, not overlapping; with the empty delimiter an empty piece,
\* every character, an empty piece
RECURSIVE split(_, _)
split(s, delimiter) ==
    IF delimiter = <<>>
    THEN <<<<>>>> \o [i \in 1..Len(s) |-> <<s[i]>>] \o <<<<>>>>
    ELSE IF ~Contains(s, delimiter) THEN <<s>>
    ELSE LET i == CHOOSE i \in 1..Len(s) :
                      /\ SubSeq(s, i, i + Len(delimiter) - 1) = delimiter
                      /\ \A h \in 1..(i - 1) : SubSeq(s, h, h + Len(delimiter) - 1) # delimiter
         IN  <<SubSeq(s, 1, i - 1)>> \o split(SubSeq(s, i + Len(delimiter), Len(s)), delimiter)

\* usize::saturating_sub(1)
saturating_sub1(n) == IF n = 0 THEN 0 ELSE n - 1

\* cut that pads: a line with too few fields gives an empty line
RECURSIVE cut_pads(_, _, _)
cut_pads(ls, field, delimiter) ==
    IF ls = <<>> THEN <<>>
    ELSE LET fields == split(ls[1], delimiter)
             n == saturating_sub1(field)
         IN  (IF n < Len(fields) THEN <<fields[n + 1]>> ELSE <<<<>>>>)
                 \o cut_pads(Tail(ls), field, delimiter)

\* Stream::cut: filter_map(|line| line.split(delimiter).nth(field.saturating_sub(1)))
RECURSIVE cut(_, _, _)
cut(ls, field, delimiter) ==
    IF ls = <<>> THEN <<>>
    ELSE LET fields == split(ls[1], delimiter)
             n == saturating_sub1(field)
         IN  (IF n < Len(fields) THEN <<fields[n + 1]>> ELSE <<>>)
                 \o cut(Tail(ls), field, delimiter)

\* tee that ends the chain: the file is written, an empty Stream comes back
tee_ends_chain(ls) == <<>>

\* Stream::tee: what comes back is self.clone()
tee(ls) == ls

\* the lines of the strings given to from_string in a pipeline: empty, letters
\* of both cases, fields between commas, a line that ends in a carriage return
PipeLineSamples ==
    { <<>>, <<"a">>, <<"b">>, <<"B">>, <<"a", ",", "b">>, <<"b", ",", ",", "a">>,
      <<"a", CR>> }

PipeContents ==
    {join(ls, <<NL>>) : ls \in UNION {[1..n -> PipeLineSamples] : n \in 0..MaxLines}}

\* (field, delimiter) given to cut
CutArgs ==
    { <<0, <<",">>>>, <<1, <<",">>>>, <<2, <<",">>>>, <<3, <<",">>>>, <<2, <<",", ",">>>>,
      <<2, <<"a">>>> }

\* the paths given to tee, the names given to to_var
Paths == {<<"o">>, <<"$", "A">>}

\* what is kept of the stage before the last one
Prev(st) == [op |-> st.op, input |-> st.input]

\* pipe!(content): Stream::from_string(content)
InitPipe ==
    /\ \E content \in PipeContents :
           /\ lines = from_string(content)
           /\ stage = [op |-> "from_string", input |-> content]
    /\ nStages = 0

\* the record of a stage called on the Stream as it is
StageOf(op, args) ==
    [op |-> op, input |-> lines, args |-> args, prev |-> Prev(stage)]

\* .sort()
Sort ==
    /\ nStages < MaxStages
    /\ lines' = sort(lines)
    /\ stage' = StageOf("sort", <<>>)
    /\ nStages' = nStages + 1
    /\ UNCHANGED <<ctx, files, seen>>

\* .uniq()
Uniq ==
    /\ nStages < MaxStages
    /\ lines' = uniq(lines)
    /\ stage' = StageOf("uniq", <<>>)
    /\ nStages' = nStages + 1
    /\ UNCHANGED <<ctx, files, seen>>

\* .unique()
Unique ==
    /\ nStages < MaxStages
    /\ lines' = unique(lines)
    /\ stage' = StageOf("unique", <<>>)
    /\ nStages' = nStages + 1
    /\ UNCHANGED <<ctx, files, seen>>

\* .cut(field, delimiter)
Cut(field, delimiter) ==
    /\ nStages < MaxStages
    /\ lines' = cut(lines, field, delimiter)
    /\ stage' = StageOf("cut", <<field, delimiter>>)
    /\ nStages' = nStages + 1
    /\ UNCHANGED <<ctx, files, seen>>

\* .tee(path): write_file(&expand_vars(path), &self.to_string()), whose result
\* is not looked at: the file is written, or it is not
Tee(path) ==
    /\ nStages < MaxStages
    /\ \/ files' = set(files, expand(ctx, path), to_string(lines))
       \/ files' = files
    /\ lines' = tee(lines)
    /\ stage' = StageOf("tee", <<path>>)
    /\ nStages' = nStages + 1
    /\ UNCHANGED <<ctx, seen>>

\* .to_var(var_name): set_var(var_name, &self.to_string()); self
ToVar(var_name) ==
    /\ nStages < MaxStages
    /\ ctx' = set(ctx, var_name, to_string(lines))
    /\ lines' = lines
    /\ stage' = StageOf("to_var", <<var_name>>)
    /\ nStages' = nStages + 1
    /\ UNCHANGED <<files, seen>>

\* .each(action), with an action that notes the line it is given
Each ==
    /\ nStages < MaxStages
    /\ seen' = lines
    /\ lines' = lines
    /\ stage' = StageOf("each", <<>>)
    /\ nStages' = nStages + 1
    /\ UNCHANGED <<ctx, files>>

\* ------------------------------------------------------------ environment
\* no file written, no line handed to a closure, the process is running
InitEnv ==
    /\ files = <<>>
    /\ seen = <<>>
    /\ process = "running"

\* ------------------------------------------------------------ job control
Threads == {"t1", "t2"}
NoThread == "none"
JobIds == 1..MaxJobs
Locks == {"JOB_COUNTER", "JOBS", "GLYPHS", "COLORS"}

\* Option<T>: None, Some(x)
None == <<>>
Some(x) == <<x>>

DEBUG_MODE == <<"D", "E", "B", "U", "G", "_", "M", "O", "D", "E">>
DEV_MODE == <<"D", "E", "V", "_", "M", "O", "D", "E">>
TRACE_MODE == <<"T", "R", "A", "C", "E", "_", "M", "O", "D", "E">>
QUIET_MODE == <<"Q", "U", "I", "E", "T", "_", "M", "O", "D", "E">>
CmdTrue == <<"t", "r", "u", "e">>
CmdFalse == <<"f", "a", "l", "s", "e">>
CmdCat == <<"c", "a", "t">>

\* the commands given to job!(background: ..)
Commands == {CmdTrue, CmdFalse}

\* the Context the job macros run under: the mode keys the options set
JobCtxs ==
    { <<>>,
      (DEBUG_MODE :> CmdTrue),
      (DEBUG_MODE :> CmdTrue) @@ (QUIET_MODE :> CmdTrue) }

\* should_print_level
should_print_level(M, level) ==
    IF has(M, QUIET_MODE) /\ level \notin {"error", "fatal"} THEN FALSE
    ELSE CASE level \in {"trace", "think"} -> has(M, TRACE_MODE)
           [] level = "debug" -> has(M, DEBUG_MODE) \/ has(M, TRACE_MODE)
           [] level \in {"info", "warn", "okay"} ->
                  has(M, DEBUG_MODE) \/ has(M, DEV_MODE) \/ has(M, TRACE_MODE)
           [] OTHER -> TRUE

\* what `sh -c cmd` can come to: it exits with a code, a signal ends it (no
\* code), or sh cannot be started
ShOutcomes(cmd) ==
    { [kind |-> "exited",
       code |-> IF cmd \in {<<>>, CmdTrue, CmdCat} THEN 0 ELSE IF cmd = CmdFalse THEN 1 ELSE 127],
      [kind |-> "signaled", code |-> 0],
      [kind |-> "spawn_failed", code |-> 0] }

\* the CmdResult run_cmd_with_status makes of it: code().unwrap_or(1), and 1
\* when the command could not be run
CmdResultOf(o) == [status |-> IF o.kind = "exited" THEN o.code ELSE 1]

\* Result<CmdResult, String> of wait_on_job
Ok(r) == [ok |-> TRUE, status |-> r.status, error |-> ""]
Err(e) == [ok |-> FALSE, status |-> 0, error |-> e]
Timeout == "Timeout"
Disconnected == "Job channel disconnected"
NotFound(job_id) == "Job " \o ToString(job_id) \o " not found"

\* a thread panics: it unwinds, its guards are dropped and poison their Mutex
Poisoned(m, t) ==
    [l \in Locks |-> IF m[l].holder = t
                     THEN [holder |-> NoThread, poisoned |-> TRUE]
                     ELSE m[l]]

\* the locals of a thread that is in no macro arm. Beside the locals of the
\* code (command, job_id, timeout, job_arc = the handle taken out of JOBS,
\* received = what recv gave, ret = what wait_on_job returned, status = the
\* value of the arm, level and cont = the logging call under way and where it
\* returns to, listed = what the list arm has echoed) the record notes, for the claims, whether the id was in JOBS
\* (registered) or already taken by a wait (late) when the wait was called
NoLocals ==
    [arm |-> "none", command |-> <<>>, job_id |-> 0, timeout |-> FALSE,
     registered |-> FALSE, late |-> FALSE, job_arc |-> FALSE, received |-> None,
     ret |-> None, status |-> None, level |-> "none", cont |-> "idle",
     listed |-> {}]

\* an arm has come to its value: its locals are gone, the caller has the value
Returned(l, value) ==
    [NoLocals EXCEPT !.arm = l.arm, !.job_id = l.job_id, !.status = Some(value)]

\* no job was ever started and no thread is in a macro
InitJobs ==
    /\ JOB_COUNTER = 0
    /\ JOBS = <<>>
    /\ mutex = [l \in Locks |-> [holder |-> NoThread, poisoned |-> FALSE]]
    /\ worker = [id \in JobIds |-> [state |-> "none", command |-> <<>>, result |-> None]]
    /\ chan = [id \in JobIds |-> [queue |-> <<>>, rx |-> FALSE]]
    /\ pc = [t \in Threads |-> "idle"]
    /\ loc = [t \in Threads |-> NoLocals]
    /\ taken = {}

\* job!(background: command) is called
Background(t, command) ==
    /\ pc[t] = "idle"
    /\ JOB_COUNTER + Cardinality({u \in Threads : pc[u] = "bg_lock"}) < MaxJobs
    /\ pc' = [pc EXCEPT ![t] = "bg_lock"]
    /\ loc' = [loc EXCEPT ![t] =
                  [NoLocals EXCEPT !.arm = "background", !.command = command]]
    /\ UNCHANGED <<JOB_COUNTER, JOBS, mutex, worker, chan, taken>>

\* the lock is taken and the id read, and the counter is left as it was
BgLockKeepsCounter(t) ==
    /\ pc[t] = "bg_lock"
    /\ mutex["JOB_COUNTER"].holder = NoThread
    /\ mutex' = [mutex EXCEPT !["JOB_COUNTER"].holder = t]
    /\ JOB_COUNTER' = JOB_COUNTER
    /\ loc' = [loc EXCEPT ![t].job_id = JOB_COUNTER + 1]
    /\ pc' = [pc EXCEPT ![t] = "bg_spawn"]
    /\ UNCHANGED <<JOBS, worker, chan, taken>>

\* let mut counter = JOB_COUNTER.lock().unwrap(); *counter += 1; job_id = *counter
\* the guard lives to the end of the arm
BgLock(t) ==
    /\ pc[t] = "bg_lock"
    /\ mutex["JOB_COUNTER"].holder = NoThread
    /\ IF mutex["JOB_COUNTER"].poisoned
       THEN /\ pc' = [pc EXCEPT ![t] = "panicked"]
            /\ mutex' = Poisoned(mutex, t)
            /\ UNCHANGED <<JOB_COUNTER, loc>>
       ELSE /\ mutex' = [mutex EXCEPT !["JOB_COUNTER"].holder = t]
            /\ JOB_COUNTER' = JOB_COUNTER + 1
            /\ loc' = [loc EXCEPT ![t].job_id = JOB_COUNTER + 1]
            /\ pc' = [pc EXCEPT ![t] = "bg_spawn"]
    /\ UNCHANGED <<JOBS, worker, chan, taken>>

\* mpsc::channel(), thread::spawn of the worker, the JobHandle is built
BgSpawn(t) ==
    /\ pc[t] = "bg_spawn"
    /\ worker' = [worker EXCEPT ![loc[t].job_id] =
                     [state |-> "running", command |-> loc[t].command, result |-> None]]
    /\ chan' = [chan EXCEPT ![loc[t].job_id] = [queue |-> <<>>, rx |-> TRUE]]
    /\ pc' = [pc EXCEPT ![t] = "bg_insert"]
    /\ UNCHANGED <<JOB_COUNTER, JOBS, mutex, loc, taken>>

\* JOBS.lock().unwrap().insert(job_id, ..); then info!(..) is called
BgInsert(t) ==
    /\ pc[t] = "bg_insert"
    /\ mutex["JOBS"].holder = NoThread
    /\ IF mutex["JOBS"].poisoned
       THEN /\ pc' = [pc EXCEPT ![t] = "panicked"]
            /\ mutex' = Poisoned(mutex, t)
            /\ UNCHANGED <<JOBS, loc>>
       ELSE /\ JOBS' = set(JOBS, loc[t].job_id,
                           [id |-> loc[t].job_id, command |-> loc[t].command])
            /\ loc' = [loc EXCEPT ![t].level = "info", ![t].cont = "bg_return"]
            /\ pc' = [pc EXCEPT ![t] = "glyph_stderr"]
            /\ UNCHANGED mutex
    /\ UNCHANGED <<JOB_COUNTER, worker, chan, taken>>

\* the worker: run_cmd_with_status(&cmd_string_for_thread)
WorkerRun(id) ==
    /\ worker[id].state = "running"
    /\ \E o \in ShOutcomes(expand(ctx, worker[id].command)) :
           worker' = [worker EXCEPT ![id].state = "sending",
                                    ![id].result = Some(CmdResultOf(o))]
    /\ UNCHANGED <<JOB_COUNTER, JOBS, mutex, chan, pc, loc, taken>>

\* the worker: let _ = tx.send(result): queued while the Receiver lives, else
\* the send fails and the result is dropped
WorkerSend(id) ==
    /\ worker[id].state = "sending"
    /\ worker' = [worker EXCEPT ![id].state = "exiting"]
    /\ chan' = [chan EXCEPT ![id].queue = IF chan[id].rx THEN worker[id].result ELSE <<>>]
    /\ UNCHANGED <<JOB_COUNTER, JOBS, mutex, pc, loc, taken>>

\* the worker's closure ends: tx is dropped, the thread can be joined
WorkerExit(id) ==
    /\ worker[id].state = "exiting"
    /\ worker' = [worker EXCEPT ![id].state = "finished"]
    /\ UNCHANGED <<JOB_COUNTER, JOBS, mutex, chan, pc, loc, taken>>

\* job!(wait: job_id) and job!(timeout: t, wait: job_id) are called: info!(..)
\* comes first
JobWait(t, job_id, timeout) ==
    /\ pc[t] = "idle"
    /\ pc' = [pc EXCEPT ![t] = "glyph_stderr"]
    /\ loc' = [loc EXCEPT ![t] =
                  [NoLocals EXCEPT !.arm = "wait", !.job_id = job_id,
                                   !.timeout = timeout,
                                   !.registered = job_id \in DOMAIN JOBS,
                                   !.late = job_id \in taken,
                                   !.level = "info", !.cont = "wait_on_job"]]
    /\ UNCHANGED <<JOB_COUNTER, JOBS, mutex, worker, chan, taken>>

\* wait_on_job: JOBS.lock().unwrap().remove(&job_id), Arc::try_unwrap on the
\* one reference there is; without a handle Err("Job {} not found")
WaitRemove(t) ==
    /\ pc[t] = "wait_on_job"
    /\ mutex["JOBS"].holder = NoThread
    /\ IF mutex["JOBS"].poisoned
       THEN /\ pc' = [pc EXCEPT ![t] = "panicked"]
            /\ mutex' = Poisoned(mutex, t)
            /\ UNCHANGED <<JOBS, loc, taken>>
       ELSE /\ UNCHANGED mutex
            /\ IF loc[t].job_id \in DOMAIN JOBS
               THEN /\ JOBS' = [k \in DOMAIN JOBS \ {loc[t].job_id} |-> JOBS[k]]
                    /\ taken' = taken \cup {loc[t].job_id}
                    /\ loc' = [loc EXCEPT ![t].job_arc = TRUE]
                    /\ pc' = [pc EXCEPT ![t] = "recv"]
               ELSE /\ loc' = [loc EXCEPT ![t].ret = Some(Err(NotFound(loc[t].job_id)))]
                    /\ pc' = [pc EXCEPT ![t] = "match"]
                    /\ UNCHANGED <<JOBS, taken>>
    /\ UNCHANGED <<JOB_COUNTER, worker, chan>>

\* wait_on_job: rx.recv() / rx.recv_timeout(t) returns Ok(cmd_result)
WaitRecvOk(t) ==
    /\ pc[t] = "recv"
    /\ chan[loc[t].job_id].queue # <<>>
    /\ loc' = [loc EXCEPT ![t].received = chan[loc[t].job_id].queue]
    /\ chan' = [chan EXCEPT ![loc[t].job_id].queue = <<>>]
    /\ pc' = [pc EXCEPT ![t] = "join"]
    /\ UNCHANGED <<JOB_COUNTER, JOBS, mutex, worker, taken>>

\* wait_on_job: nothing is queued and the receive gives up: the Sender is gone
\* (Disconnected: join, then the error), or the timeout has run out (Timeout:
\* no join); the JobHandle is dropped with its Receiver
WaitRecvErr(t) ==
    /\ pc[t] = "recv"
    /\ chan[loc[t].job_id].queue = <<>>
    /\ worker[loc[t].job_id].state = "finished" \/ loc[t].timeout
    /\ loc' = [loc EXCEPT ![t].ret =
                  IF worker[loc[t].job_id].state = "finished"
                  THEN Some(Err(Disconnected))
                  ELSE Some(Err(Timeout))]
    /\ chan' = [chan EXCEPT ![loc[t].job_id].rx = FALSE]
    /\ pc' = [pc EXCEPT ![t] = "match"]
    /\ UNCHANGED <<JOB_COUNTER, JOBS, mutex, worker, taken>>

\* wait_on_job: h.join() on success, then Ok(cmd_result)
WaitJoin(t) ==
    /\ pc[t] = "join"
    /\ worker[loc[t].job_id].state = "finished"
    /\ loc' = [loc EXCEPT ![t].ret = Some(Ok(loc[t].received[1]))]
    /\ chan' = [chan EXCEPT ![loc[t].job_id].rx = FALSE]
    /\ pc' = [pc EXCEPT ![t] = "match"]
    /\ UNCHANGED <<JOB_COUNTER, JOBS, mutex, worker, taken>>

\* the match of the wait arms: Ok(result) => result.status is the value of the
\* arm; Err(e) => error!(..) is called
WaitMatch(t) ==
    /\ pc[t] = "match"
    /\ IF loc[t].ret[1].ok
       THEN /\ loc' = [loc EXCEPT ![t] = Returned(loc[t], loc[t].ret[1].status)]
            /\ pc' = [pc EXCEPT ![t] = "idle"]
       ELSE /\ loc' = [loc EXCEPT ![t].level = "error", ![t].cont = "wait_failed"]
            /\ pc' = [pc EXCEPT ![t] = "glyph_stderr"]
    /\ UNCHANGED <<JOB_COUNTER, JOBS, mutex, worker, chan, taken>>

\* the last expression of an arm after its logging call has returned: job_id
\* in the background arm, whose counter guard is dropped here; -1 after
\* error!(..) in the wait arms (should_print_level("error") is always true,
\* so that call goes on to the Mutexes of glyph_stderr)
ArmEnd(t) ==
    /\ pc[t] \in {"bg_return", "wait_failed"}
    /\ IF pc[t] = "bg_return"
       THEN /\ loc' = [loc EXCEPT ![t] = Returned(loc[t], loc[t].job_id)]
            /\ mutex' = [mutex EXCEPT !["JOB_COUNTER"].holder = NoThread]
       ELSE /\ loc' = [loc EXCEPT ![t] = Returned(loc[t], -1)]
            /\ UNCHANGED mutex
    /\ pc' = [pc EXCEPT ![t] = "idle"]
    /\ UNCHANGED <<JOB_COUNTER, JOBS, worker, chan, taken>>

\* glyph_stderr: if !should_print_level(level) { return; }
GlyphCheck(t) ==
    /\ pc[t] = "glyph_stderr"
    /\ pc' = [pc EXCEPT ![t] = IF should_print_level(ctx, loc[t].level)
                               THEN "glyphs_lock"
                               ELSE loc[t].cont]
    /\ UNCHANGED <<JOB_COUNTER, JOBS, mutex, worker, chan, loc, taken>>

\* glyph_stderr: let glyphs = GLYPHS.lock().unwrap()
GlyphLockGlyphs(t) ==
    /\ pc[t] = "glyphs_lock"
    /\ mutex["GLYPHS"].holder = NoThread
    /\ IF mutex["GLYPHS"].poisoned
       THEN /\ pc' = [pc EXCEPT ![t] = "panicked"]
            /\ mutex' = Poisoned(mutex, t)
       ELSE /\ mutex' = [mutex EXCEPT !["GLYPHS"].holder = t]
            /\ pc' = [pc EXCEPT ![t] = "colors_lock"]
    /\ UNCHANGED <<JOB_COUNTER, JOBS, worker, chan, loc, taken>>

\* glyph_stderr: let colors = COLORS.lock().unwrap(); the message is built
\* and expand_colors is called, both guards alive
GlyphLockColors(t) ==
    /\ pc[t] = "colors_lock"
    /\ mutex["COLORS"].holder = NoThread
    /\ IF mutex["COLORS"].poisoned
       THEN /\ pc' = [pc EXCEPT ![t] = "panicked"]
            /\ mutex' = Poisoned(mutex, t)
       ELSE /\ mutex' = [mutex EXCEPT !["COLORS"].holder = t]
            /\ pc' = [pc EXCEPT ![t] = "expand_colors"]
    /\ UNCHANGED <<JOB_COUNTER, JOBS, worker, chan, loc, taken>>

\* expand_colors: let colors = COLORS.lock().unwrap(), called by glyph_stderr
\* which holds COLORS: Mutex::lock by the thread that holds the Mutex does not
\* return; it blocks for ever, or it panics
ExpandColorsLock(t) ==
    /\ pc[t] = "expand_colors"
    /\ mutex["COLORS"].holder = t
    /\ \/ /\ pc' = [pc EXCEPT ![t] = "deadlocked"]
          /\ UNCHANGED mutex
       \/ /\ pc' = [pc EXCEPT ![t] = "panicked"]
          /\ mutex' = Poisoned(mutex, t)
    /\ UNCHANGED <<JOB_COUNTER, JOBS, worker, chan, loc, taken>>

\* job!(list) is called
JobList(t) ==
    /\ pc[t] = "idle"
    /\ pc' = [pc EXCEPT ![t] = "list_lock"]
    /\ loc' = [loc EXCEPT ![t] = [NoLocals EXCEPT !.arm = "list"]]
    /\ UNCHANGED <<JOB_COUNTER, JOBS, mutex, worker, chan, taken>>

\* the list arm: let jobs = JOBS.lock().unwrap(), a guard that lives to the
\* end of the arm; then info!("No running jobs.") or info!("Running jobs:")
ListLock(t) ==
    /\ pc[t] = "list_lock"
    /\ mutex["JOBS"].holder = NoThread
    /\ IF mutex["JOBS"].poisoned
       THEN /\ pc' = [pc EXCEPT ![t] = "panicked"]
            /\ mutex' = Poisoned(mutex, t)
            /\ UNCHANGED loc
       ELSE /\ mutex' = [mutex EXCEPT !["JOBS"].holder = t]
            /\ loc' = [loc EXCEPT ![t].level = "info",
                                  ![t].cont = IF DOMAIN JOBS = {} THEN "list_end"
                                              ELSE "list_echo"]
            /\ pc' = [pc EXCEPT ![t] = "glyph_stderr"]
    /\ UNCHANGED <<JOB_COUNTER, JOBS, worker, chan, taken>>

\* the list arm: for (id, job_mutex) in jobs.iter() { echo!("[{}] {}", id,
\* job.command) }, under the JOBS guard
ListEcho(t) ==
    /\ pc[t] = "list_echo"
    /\ loc' = [loc EXCEPT ![t].listed = {<<id, JOBS[id].command>> : id \in DOMAIN JOBS}]
    /\ pc' = [pc EXCEPT ![t] = "list_end"]
    /\ UNCHANGED <<JOB_COUNTER, JOBS, mutex, worker, chan, taken>>

\* the end of the list arm: the JOBS guard is dropped
ListEnd(t) ==
    /\ pc[t] = "list_end"
    /\ mutex' = [mutex EXCEPT !["JOBS"].holder = NoThread]
    /\ loc' = [loc EXCEPT ![t] = [NoLocals EXCEPT !.arm = "list",
                                                   !.listed = loc[t].listed]]
    /\ pc' = [pc EXCEPT ![t] = "idle"]
    /\ UNCHANGED <<JOB_COUNTER, JOBS, worker, chan, taken>>

\* ---------------------------------------------------- commands in a pipe
\* the commands given to from_cmd and pipe_to_cmd
PipeCommands == {CmdTrue, CmdFalse, CmdCat}

\* what the command writes to its stdout when it runs to its end: cat copies
\* its stdin, true and false write nothing
Stdout(cmd, o, input) == IF o.kind = "exited" /\ cmd = CmdCat THEN input ELSE <<>>

\* run_cmd: the stdout of the command when its status is 0; otherwise the
\* COMMAND_ERROR event (no handler registered), two lines on stderr and
\* std::process::exit(result.status)
run_cmd(cmd, o) ==
    LET result == CmdResultOf(o)
    IN  IF result.status # 0
        THEN [exits |-> TRUE, output |-> <<>>]
        ELSE [exits |-> FALSE, output |-> Stdout(cmd, o, <<>>)]

\* Stream::from_cmd(cmd): run_cmd(&expand_vars(cmd)), then from_string; the
\* program takes it as the source of its pipeline in place of from_string
FromCmd(cmd) ==
    /\ process = "running"
    /\ nStages = 0
    /\ \E o \in ShOutcomes(expand(ctx, expand(ctx, cmd))) :
           LET r == run_cmd(expand(ctx, expand(ctx, cmd)), o)
           IN  IF r.exits
               THEN /\ process' = "exited"
                    /\ UNCHANGED <<lines, stage, nStages>>
               ELSE /\ lines' = from_string(r.output)
                    /\ stage' = [op |-> "from_cmd", input |-> r.output]
                    /\ nStages' = 0
                    /\ UNCHANGED process
    /\ UNCHANGED <<ctx, files, seen>>

\* .pipe_to_cmd(command): spawn sh -c with piped stdin and stdout, expect;
\* write the text to its stdin, expect; wait_with_output, expect; the exit
\* status is not looked at.  A command that ends without reading may have
\* closed the pipe before the write (EPIPE) unless there is nothing to write
PipeToCmd(command) ==
    /\ process = "running"
    /\ nStages < MaxStages
    /\ LET expanded_cmd == expand(ctx, command)
           input == to_string(lines)
       IN  \E o \in ShOutcomes(expanded_cmd) :
             \/ /\ (o.kind = "spawn_failed" \/ (expanded_cmd # CmdCat /\ input # <<>>))
                 /\ process' = "panicked"
                 /\ UNCHANGED <<lines, stage, nStages>>
             \/ /\ o.kind # "spawn_failed"
                 /\ lines' = from_string(Stdout(expanded_cmd, o, input))
                 /\ stage' = StageOf("pipe_to_cmd", <<command>>)
                 /\ nStages' = nStages + 1
                 /\ UNCHANGED process
    /\ UNCHANGED <<ctx, files, seen>>

\* --------------------------------------------------------------- dispatch
\* the command table given to the macros, and a command that is not in it
HandlerCmds == {"build", "deploy"}
BuiltinCmds == {"help", "--help", "-h", "inspect", "stack"}
DispatchCmds == HandlerCmds \cup {"help"}

\* what a handler returns: its exit code
HandlerResults == {0, 1}

\* a frame pushed with a new, empty map in place of the clone
push_call_empty_snapshot(stack, function, args, snapshot) ==
    Append(stack, [function |-> function, args |-> args, context_snapshot |-> <<>>])

\* push_call: a CallFrame of the function, the args and a clone of CTX.vars
\* (the timestamp is left out), pushed on the Vec
push_call(stack, function, args, snapshot) ==
    Append(stack, [function |-> function, args |-> args, context_snapshot |-> snapshot])

\* get_call_stack: a clone of the Vec
get_call_stack(stack) == stack

\* what pop_call returns: Some(frame on top), or None
popped_frame(stack) == IF stack = <<>> THEN <<>> ELSE <<stack[Len(stack)]>>

\* the variable a handler sets and unsets, and the value it sets it to
HandlerKey == <<"A">>
HandlerValue == <<"-">>

\* pop_call: Vec::pop, nothing happens on an empty Vec
pop_call(stack) == IF stack = <<>> THEN stack ELSE SubSeq(stack, 1, Len(stack) - 1)

\* not in a dispatch macro
NoDispatch ==
    [macro |-> "none", args_vec |-> <<>>, command |-> "", args |-> <<>>,
     is_test |-> FALSE, before |-> <<>>, runs |-> 0, result |-> 0,
     stack |-> <<>>, popped |-> <<>>, exit_status |-> None]

\* an empty call stack, no thread in a dispatch macro
InitCalls ==
    /\ CALL_STACK = <<>>
    /\ dpc = [t \in Threads |-> "idle"]
    /\ dloc = [t \in Threads |-> NoDispatch]

\* the files that define dispatch!: macros.rs and macros/routing.rs take
\* &args_vec[2..], macros/dispatch.rs takes &args_vec[start_idx..]
DispatchDefs == {"macros.rs", "macros/routing.rs", "macros/dispatch.rs"}

\* args_vec.get(1).map(|s| s.as_str()).unwrap_or("help")
CommandOf(args_vec) == IF Len(args_vec) >= 2 THEN args_vec[2] ELSE "help"

\* the arguments after the command: &args_vec[2..], or from start_idx
ArgsAfter(args_vec) == IF Len(args_vec) > 2 THEN SubSeq(args_vec, 3, Len(args_vec)) ELSE <<>>

\* dispatch!(args, {..}): the command is read, the slice of the arguments is
\* taken (a panic when args_vec is shorter than the start of the slice), the
\* command is looked up: a command of the table goes on to push_call and its
\* handler; help, --help, -h, inspect and stack print and exit with 0; any
\* other command goes on to error!
Dispatch(t, args_vec, def) ==
    /\ process = "running"
    /\ dpc[t] = "idle"
    /\ LET command == CommandOf(args_vec)
           entered == [NoDispatch EXCEPT !.macro = "dispatch",
                                         !.args_vec = args_vec,
                                         !.command = command,
                                         !.args = ArgsAfter(args_vec)]
       IN  IF def # "macros/dispatch.rs" /\ Len(args_vec) < 2
           THEN /\ dloc' = [dloc EXCEPT ![t] = entered]
                /\ dpc' = [dpc EXCEPT ![t] = "panicked"]
                /\ process' = "panicked"
           ELSE IF command \in HandlerCmds
           THEN /\ dloc' = [dloc EXCEPT ![t] = entered]
                /\ dpc' = [dpc EXCEPT ![t] = "push_call"]
                /\ UNCHANGED process
           ELSE IF command \in BuiltinCmds
           THEN /\ dloc' = [dloc EXCEPT ![t] = [entered EXCEPT !.exit_status = Some(0)]]
                /\ dpc' = [dpc EXCEPT ![t] = "exited"]
                /\ process' = "exited"
           ELSE /\ dloc' = [dloc EXCEPT ![t] = entered]
                /\ dpc' = [dpc EXCEPT ![t] = "error"]
                /\ UNCHANGED process
    /\ UNCHANGED <<CALL_STACK, ctx>>

\* the last arm of dispatch!: $crate::error!("Unknown command: {}", command)
DispatchError(t) ==
    /\ process = "running"
    /\ dpc[t] = "error"
    /\ pc[t] = "idle"
    /\ dpc' = [dpc EXCEPT ![t] = "unknown"]
    /\ pc' = [pc EXCEPT ![t] = "glyph_stderr"]
    /\ loc' = [loc EXCEPT ![t] = [NoLocals EXCEPT !.arm = "dispatch", !.level = "error",
                                                  !.cont = "show_help"]]
    /\ UNCHANGED <<CALL_STACK, dloc, ctx, process>>
    /\ UNCHANGED <<JOB_COUNTER, JOBS, mutex, worker, chan, taken>>

\* pre_dispatch!(args, {..}): is_test is read from CARGO_TEST and the name of
\* the thread; a command of the table goes on to push_call and its handler,
\* any other command gives false
PreDispatch(t, command, is_test) ==
    /\ process = "running"
    /\ dpc[t] = "idle"
    /\ dloc' = [dloc EXCEPT ![t] = [NoDispatch EXCEPT !.macro = "pre_dispatch",
                                                     !.command = command,
                                                     !.is_test = is_test]]
    /\ dpc' = [dpc EXCEPT ![t] = IF command \in HandlerCmds THEN "push_call" ELSE "idle"]
    /\ UNCHANGED <<CALL_STACK, ctx, process>>

\* $crate::context::push_call($cmd, cmd_args.all()); `before` notes the stack
\* the frame is pushed on
PushCall(t) ==
    /\ process = "running"
    /\ dpc[t] = "push_call"
    /\ CALL_STACK' = push_call(CALL_STACK, dloc[t].command, dloc[t].args, ctx)
    /\ dloc' = [dloc EXCEPT ![t].before = CALL_STACK]
    /\ dpc' = [dpc EXCEPT ![t] = "handler"]
    /\ UNCHANGED <<ctx, process>>

\* let result = $handler(cmd_args): a handler that returns an exit code and
\* does not touch the call stack
Handler(t, result) ==
    /\ process = "running"
    /\ dpc[t] = "handler"
    /\ dloc' = [dloc EXCEPT ![t].result = result, ![t].runs = dloc[t].runs + 1]
    /\ dpc' = [dpc EXCEPT ![t] = "pop_call"]
    /\ UNCHANGED <<CALL_STACK, ctx, process>>

\* the handler calls set_var(key, value)
HandlerSetVar(t, key, value) ==
    /\ process = "running"
    /\ dpc[t] = "handler"
    /\ ctx' = set(ctx, key, value)
    /\ UNCHANGED <<CALL_STACK, dpc, dloc, process>>

\* the handler calls unset_var(key)
HandlerUnsetVar(t, key) ==
    /\ process = "running"
    /\ dpc[t] = "handler"
    /\ key \in DOMAIN ctx
    /\ ctx' = [k \in DOMAIN ctx \ {key} |-> ctx[k]]
    /\ UNCHANGED <<CALL_STACK, dpc, dloc, process>>

\* the handler calls get_call_stack() and keeps the Vec it is given
HandlerGetCallStack(t) ==
    /\ process = "running"
    /\ dpc[t] = "handler"
    /\ dloc' = [dloc EXCEPT ![t].stack = get_call_stack(CALL_STACK)]
    /\ UNCHANGED <<CALL_STACK, dpc, ctx, process>>

\* $crate::context::pop_call(); `popped` notes the Option it returns
PopCall(t) ==
    /\ process = "running"
    /\ dpc[t] = "pop_call"
    /\ CALL_STACK' = pop_call(CALL_STACK)
    /\ dloc' = [dloc EXCEPT ![t].popped = popped_frame(CALL_STACK)]
    /\ dpc' = [dpc EXCEPT ![t] = "popped"]
    /\ UNCHANGED <<ctx, process>>

\* the end of the arm: std::process::exit(result), or true under is_test in
\* pre_dispatch!; after error! in the last arm of dispatch!, show_help() and
\* std::process::exit(1)
DispatchEnd(t) ==
    /\ process = "running"
    /\ \/ dpc[t] = "popped"
       \/ dpc[t] = "unknown" /\ pc[t] = "show_help"
    /\ IF dpc[t] = "unknown"
       THEN /\ process' = "exited"
            /\ dpc' = [dpc EXCEPT ![t] = "exited"]
            /\ dloc' = [dloc EXCEPT ![t].exit_status = Some(1)]
       ELSE IF dloc[t].macro = "pre_dispatch" /\ dloc[t].is_test
       THEN /\ dpc' = [dpc EXCEPT ![t] = "idle"]
            /\ dloc' = [dloc EXCEPT ![t] = NoDispatch]
            /\ UNCHANGED process
       ELSE /\ process' = "exited"
            /\ dloc' = [dloc EXCEPT ![t].exit_status = Some(dloc[t].result)]
            /\ UNCHANGED dpc
    /\ UNCHANGED <<CALL_STACK, ctx>>

\* ------------------------------------------- calls that lock the Context
\* the texts given to expand_vars and, as commands, to the shell
ShellTexts == {CmdTrue, <<"$", "A">>, <<"$", "{", "A", "}", "$", "B">>}

\* the values the program sets
ShellValues == {CmdTrue, CmdFalse}

\* the locals of a thread that is in no such call: op = the function called,
\* text = the argument of the expand_vars under way, pass = which of the two
\* expand_vars of from_cmd, braced = the text after the braced pass, out =
\* what expand_vars returned, outcome = what became of `sh -c`, result = the value of the call
NoShell ==
    [op |-> "none", text |-> <<>>, pass |-> 0, braced |-> <<>>,
     out |-> <<>>, outcome |-> None, result |-> None]

InitShell ==
    /\ CTX = NoThread
    /\ spc = [t \in Threads |-> "idle"]
    /\ sloc = [t \in Threads |-> NoShell]

\* expand_vars(text) is called
ExpandVars(t, text) ==
    /\ process = "running"
    /\ spc[t] = "idle"
    /\ spc' = [spc EXCEPT ![t] = "lock"]
    /\ sloc' = [sloc EXCEPT ![t] = [NoShell EXCEPT !.op = "expand_vars", !.text = text]]
    /\ UNCHANGED <<CTX, ctx, process>>

\* run_cmd_with_status(cmd) is called, by the program or by the worker of a
\* job: let expanded_cmd = expand_vars(cmd) comes first
RunCmdWithStatus(t, cmd) ==
    /\ process = "running"
    /\ spc[t] = "idle"
    /\ spc' = [spc EXCEPT ![t] = "lock"]
    /\ sloc' = [sloc EXCEPT ![t] =
                   [NoShell EXCEPT !.op = "run_cmd_with_status", !.text = cmd]]
    /\ UNCHANGED <<CTX, ctx, process>>

\* Stream::from_cmd(cmd) is called: run_cmd(&expand_vars(cmd)), and
\* run_cmd_with_status expands what it is given once more
StreamFromCmd(t, cmd) ==
    /\ process = "running"
    /\ spc[t] = "idle"
    /\ spc' = [spc EXCEPT ![t] = "lock"]
    /\ sloc' = [sloc EXCEPT ![t] =
                   [NoShell EXCEPT !.op = "from_cmd", !.text = cmd, !.pass = 1]]
    /\ UNCHANGED <<CTX, ctx, process>>

\* Stream::pipe_to_cmd(command) is called: let expanded_cmd =
\* expand_vars(command) comes before the spawn
StreamPipeToCmd(t, command) ==
    /\ process = "running"
    /\ spc[t] = "idle"
    /\ spc' = [spc EXCEPT ![t] = "lock"]
    /\ sloc' = [sloc EXCEPT ![t] =
                   [NoShell EXCEPT !.op = "pipe_to_cmd", !.text = command]]
    /\ UNCHANGED <<CTX, ctx, process>>

\* expand_vars: CTX.lock().unwrap()
CtxLock(t) ==
    /\ process = "running"
    /\ spc[t] = "lock"
    /\ CTX = NoThread
    /\ CTX' = t
    /\ spc' = [spc EXCEPT ![t] = "braced"]
    /\ UNCHANGED <<sloc, ctx, process>>

\* Context::expand under the guard: braced_re.replace_all over the text
ExpandBraced(t) ==
    /\ process = "running"
    /\ spc[t] = "braced"
    /\ sloc' = [sloc EXCEPT ![t].braced = BracedPass(ctx, sloc[t].text, 1)]
    /\ spc' = [spc EXCEPT ![t] = "simple"]
    /\ UNCHANGED <<CTX, ctx, process>>

\* what follows the return of expand_vars in the function that called it
AfterExpand(l) ==
    IF l.op = "expand_vars" THEN "returned"
    ELSE IF l.op = "from_cmd" /\ l.pass = 1 THEN "lock"
    ELSE "spawn"

\* ExpandSimple with a guard that outlives the return of expand_vars
ExpandSimpleKeepsGuard(t) ==
    /\ process = "running"
    /\ spc[t] = "simple"
    /\ LET out == SimplePass(ctx, sloc[t].braced, 1)
       IN  sloc' = [sloc EXCEPT ![t].out = out,
                                ![t].text = IF AfterExpand(sloc[t]) = "lock" THEN out ELSE @,
                                ![t].pass = IF AfterExpand(sloc[t]) = "lock" THEN 2 ELSE @]
    /\ spc' = [spc EXCEPT ![t] = AfterExpand(sloc[t])]
    /\ UNCHANGED <<CTX, ctx, process>>

\* Context::expand under the guard: simple_re.replace_all over the result of
\* the braced pass; expand_vars returns and its guard, a temporary, is
\* dropped.  from_cmd gives the string to run_cmd, whose run_cmd_with_status
\* calls expand_vars on it again
ExpandSimple(t) ==
    /\ process = "running"
    /\ spc[t] = "simple"
    /\ LET out == SimplePass(ctx, sloc[t].braced, 1)
       IN  sloc' = [sloc EXCEPT ![t].out = out,
                                ![t].text = IF AfterExpand(sloc[t]) = "lock" THEN out ELSE @,
                                ![t].pass = IF AfterExpand(sloc[t]) = "lock" THEN 2 ELSE @]
    /\ CTX' = NoThread
    /\ spc' = [spc EXCEPT ![t] = AfterExpand(sloc[t])]
    /\ UNCHANGED <<ctx, process>>

\* Command::new("sh").arg("-c").arg(&expanded_cmd): output() or spawn().  When
\* sh cannot be started run_cmd_with_status makes a CmdResult of status 1 of
\* it, which ends the process in run_cmd; pipe_to_cmd panics in expect.
\* Nothing is written to the stdin of the child of pipe_to_cmd here: the
\* Stream is empty
CommandSpawn(t) ==
    /\ process = "running"
    /\ spc[t] = "spawn"
    /\ \E o \in ShOutcomes(sloc[t].out) :
           IF o.kind = "spawn_failed"
           THEN /\ sloc' = [sloc EXCEPT ![t].outcome = Some(o),
                                        ![t].result = Some(CmdResultOf(o))]
                /\ spc' = [spc EXCEPT ![t] =
                              IF sloc[t].op = "run_cmd_with_status" THEN "returned"
                              ELSE "ended"]
                /\ process' = IF sloc[t].op = "run_cmd_with_status" THEN process
                              ELSE IF sloc[t].op = "from_cmd" THEN "exited"
                              ELSE "panicked"
           ELSE /\ sloc' = [sloc EXCEPT ![t].outcome = Some(o)]
                /\ spc' = [spc EXCEPT ![t] = "child"]
                /\ UNCHANGED process
    /\ UNCHANGED <<CTX, ctx>>

\* the thread waits for the child, in output() or wait_with_output(), and
\* the child ends: the CmdResult of run_cmd_with_status; in run_cmd
\* std::process::exit for a status other than 0; in pipe_to_cmd the Stream
\* of the child's stdout whatever the status
CommandOutput(t) ==
    /\ process = "running"
    /\ spc[t] = "child"
    /\ LET result == CmdResultOf(sloc[t].outcome[1])
           exits == sloc[t].op = "from_cmd" /\ result.status # 0
       IN  /\ sloc' = [sloc EXCEPT ![t].result = Some(result)]
           /\ spc' = [spc EXCEPT ![t] = IF exits THEN "ended" ELSE "returned"]
           /\ process' = IF exits THEN "exited" ELSE process
    /\ UNCHANGED <<CTX, ctx>>

\* the caller takes the value and goes on
ShellReturn(t) ==
    /\ process = "running"
    /\ spc[t] = "returned"
    /\ spc' = [spc EXCEPT ![t] = "idle"]
    /\ sloc' = [sloc EXCEPT ![t] = NoShell]
    /\ UNCHANGED <<CTX, ctx, process>>

\* a set_var that does not wait for the guard
SetVarUnguarded(t, key, value) ==
    /\ process = "running"
    /\ spc[t] = "idle"
    /\ ctx' = set(ctx, key, value)
    /\ UNCHANGED <<CTX, spc, sloc, process>>

\* set_var by a thread: CTX.lock().unwrap().set(key, value), the guard taken
\* and dropped in the one statement
SetVar(t, key, value) ==
    /\ process = "running"
    /\ spc[t] = "idle"
    /\ CTX = NoThread
    /\ ctx' = set(ctx, key, value)
    /\ UNCHANGED <<CTX, spc, sloc, process>>

\* unset_var by a thread: CTX.lock().unwrap().vars.remove(key)
UnsetVar(t, key) ==
    /\ process = "running"
    /\ spc[t] = "idle"
    /\ CTX = NoThread
    /\ key \in DOMAIN ctx
    /\ ctx' = [k \in DOMAIN ctx \ {key} |-> ctx[k]]
    /\ UNCHANGED <<CTX, spc, sloc, process>>

\* -------------------------------------------------------------- lock files
\* the path given to create_lock and remove_lock
LockPath == <<"l">>

\* std::process::id() of the two processes that use the path
pid(t) == IF t = "t1" THEN <<"7">> ELSE <<"8">>

\* str::trim
RECURSIVE trim(_)
trim(s) ==
    IF s # <<>> /\ s[1] \in {" ", NL} THEN trim(Tail(s))
    ELSE IF s # <<>> /\ s[Len(s)] \in {" ", NL} THEN trim(SubSeq(s, 1, Len(s) - 1))
    ELSE s

\* the locals of create_lock: old_pid, open = the File made by File::create
\* is still the file at the path, result = the value returned
NoLockLocals == [old_pid |-> <<>>, open |-> FALSE, result |-> None]

InitLock ==
    /\ lpc = [t \in Threads |-> "idle"]
    /\ lloc = [t \in Threads |-> NoLockLocals]

\* the file at the path is removed: a File another process has open on it
\* is no longer the file at the path
Unlinked(l) == [t \in Threads |-> [l[t] EXCEPT !.open = FALSE]]

\* the files without the one at path
RemoveFile(fs, path) == [f \in DOMAIN fs \ {path} |-> fs[f]]

\* create_lock(lock_path) is called
CreateLock(t) ==
    /\ lpc[t] = "idle"
    /\ lpc' = [lpc EXCEPT ![t] = "exists"]
    /\ lloc' = [lloc EXCEPT ![t] = NoLockLocals]
    /\ UNCHANGED files

\* if std::path::Path::new(lock_path).exists()
LockExists(t) ==
    /\ lpc[t] = "exists"
    /\ lpc' = [lpc EXCEPT ![t] = IF LockPath \in DOMAIN files THEN "read" ELSE "create"]
    /\ UNCHANGED <<lloc, files>>

\* if let Ok(contents) = std::fs::read_to_string(lock_path): old_pid =
\* contents.trim(); without the file the if is skipped
LockRead(t) ==
    /\ lpc[t] = "read"
    /\ IF LockPath \in DOMAIN files
       THEN /\ lloc' = [lloc EXCEPT ![t].old_pid = trim(files[LockPath])]
            /\ lpc' = [lpc EXCEPT ![t] = "process_exists_by_pid"]
       ELSE /\ lpc' = [lpc EXCEPT ![t] = "create"]
            /\ UNCHANGED lloc
    /\ UNCHANGED files

\* the process with that pid has not ended
Running(old_pid) == \E u \in Threads : pid(u) = old_pid /\ lpc[u] # "exited"

\* process_exists_by_pid(old_pid): false for the empty pid; else
\* run_cmd("ps -p {} -o pid="), which returns the pid when the process runs
\* (create_lock returns Err) and, ps ending with status 1 when it does not,
\* calls std::process::exit
ProcessExistsByPid(t) ==
    /\ lpc[t] = "process_exists_by_pid"
    /\ IF lloc[t].old_pid = <<>>
       THEN /\ lpc' = [lpc EXCEPT ![t] = "remove_stale"]
            /\ UNCHANGED lloc
       ELSE IF Running(lloc[t].old_pid)
       THEN /\ lpc' = [lpc EXCEPT ![t] = "returned"]
            /\ lloc' = [lloc EXCEPT ![t].result = Some("Err")]
       ELSE /\ lpc' = [lpc EXCEPT ![t] = "exited"]
            /\ UNCHANGED lloc
    /\ UNCHANGED files

\* let _ = std::fs::remove_file(lock_path)
LockRemoveStale(t) ==
    /\ lpc[t] = "remove_stale"
    /\ files' = RemoveFile(files, LockPath)
    /\ lloc' = Unlinked(lloc)
    /\ lpc' = [lpc EXCEPT ![t] = "create"]

\* File::create(lock_path): the file is made, or cut to nothing when it is
\* there
LockCreate(t) ==
    /\ lpc[t] = "create"
    /\ files' = set(files, LockPath, <<>>)
    /\ lloc' = [lloc EXCEPT ![t].open = TRUE]
    /\ lpc' = [lpc EXCEPT ![t] = "write"]

\* write!(file, "{}", pid), into the File this call made; Ok(())
LockWrite(t) ==
    /\ lpc[t] = "write"
    /\ files' = IF lloc[t].open THEN set(files, LockPath, pid(t)) ELSE files
    /\ lloc' = [lloc EXCEPT ![t].result = Some("Ok")]
    /\ lpc' = [lpc EXCEPT ![t] = "returned"]

\* the caller has Err: it goes on without the lock
LockRefused(t) ==
    /\ lpc[t] = "returned"
    /\ lloc[t].result = Some("Err")
    /\ lpc' = [lpc EXCEPT ![t] = "idle"]
    /\ lloc' = [lloc EXCEPT ![t] = NoLockLocals]
    /\ UNCHANGED files

\* remove_lock(lock_path) by a caller that got Ok: let _ = remove_file
RemoveLock(t) ==
    /\ lpc[t] = "returned"
    /\ lloc[t].result = Some("Ok")
    /\ files' = RemoveFile(files, LockPath)
    /\ lloc' = [Unlinked(lloc) EXCEPT ![t] = NoLockLocals]
    /\ lpc' = [lpc EXCEPT ![t] = "idle"]

\* a process that got Ok ends without remove_lock
ProcessEnds(t) ==
    /\ lpc[t] = "returned"
    /\ lloc[t].result = Some("Ok")
    /\ lpc' = [lpc EXCEPT ![t] = "exited"]
    /\ UNCHANGED <<lloc, files>>

\* ------------------------------------------------------------------- Args
\* the arguments and the flags and keys the handler asks for
ArgSamples ==
    { <<"-", "f">>, <<"-", "f", "=", "x">>, <<"x">>, <<"k", "=", "v">>, <<"k", ":", "v">> }
ArgFlags == { <<"-", "f">>, <<"k">> }

\* the argument lists given to Args::new
RECURSIVE ArgLists(_)
ArgLists(n) ==
    IF n = 0 THEN {<<>>}
    ELSE ArgLists(n - 1) \cup {Append(l, a) : l \in {m \in ArgLists(n - 1) : Len(m) = n - 1},
                                               a \in ArgSamples}

\* str::strip_prefix
strip_prefix(arg, prefix) ==
    IF Len(arg) >= Len(prefix) /\ SubSeq(arg, 1, Len(prefix)) = prefix
    THEN Some(SubSeq(arg, Len(prefix) + 1, Len(arg)))
    ELSE None

\* iter().position(|arg| arg == flag): the first position, 0 for None
\* (positions count from 1 here, from 0 in the code)
position(ls, flag) ==
    IF \E i \in 1..Len(ls) : ls[i] = flag
    THEN CHOOSE i \in 1..Len(ls) : ls[i] = flag /\ \A h \in 1..(i - 1) : ls[h] # flag
    ELSE 0

\* Args::remaining: the arguments whose position is not in processed
remaining(ls, done) ==
    LET F[i \in 0..Len(ls)] ==
            IF i = 0 THEN <<>>
            ELSE IF i \in done THEN F[i - 1] ELSE Append(F[i - 1], ls[i])
    IN  F[Len(ls)]

\* Args::get
args_get(ls, done, n) ==
    IF n = 0 THEN <<>>
    ELSE IF n <= Len(remaining(ls, done)) THEN remaining(ls, done)[n] ELSE <<>>

\* Args::has_pop: the processed set and the value returned
has_pop(ls, done, flag) ==
    LET pos == position(ls, flag)
    IN  IF pos # 0 THEN [processed |-> done \cup {pos}, out |-> TRUE, form |-> "flag", pos |-> pos]
        ELSE [processed |-> done, out |-> FALSE, form |-> "none", pos |-> 0]

\* has_val that marks the flag and leaves the value unmarked
has_val_marks_flag_only(ls, done, flag) ==
    LET pos == position(ls, flag)
    IN  IF pos # 0 /\ pos \notin done /\ pos + 1 <= Len(ls)
        THEN [processed |-> done \cup {pos}, out |-> Some(ls[pos + 1]),
              form |-> "flag value", pos |-> pos]
        ELSE [processed |-> done, out |-> None, form |-> "none", pos |-> 0]

\* Args::has_val: the first unprocessed flag=value, otherwise the first
\* occurrence of the flag when it is unprocessed and has an argument after it
has_val(ls, done, flag) ==
    LET eq == {i \in 1..Len(ls) : strip_prefix(ls[i], flag \o <<"=">>) # None /\ i \notin done}
        pos == position(ls, flag)
    IN  IF eq # {}
        THEN LET i == CHOOSE i \in eq : \A h \in eq : i <= h
             IN  [processed |-> done \cup {i},
                  out |-> Some(strip_prefix(ls[i], flag \o <<"=">>)[1]),
                  form |-> "flag=value", pos |-> i]
        ELSE IF pos # 0 /\ pos \notin done /\ pos + 1 <= Len(ls)
        THEN [processed |-> done \cup {pos, pos + 1}, out |-> Some(ls[pos + 1]),
              form |-> "flag value", pos |-> pos]
        ELSE [processed |-> done, out |-> None, form |-> "none", pos |-> 0]

\* Args::get_kv: the first unprocessed key=value or key:value
get_kv(ls, done, key) ==
    LET kv == {i \in 1..Len(ls) :
                  /\ i \notin done
                  /\ \/ strip_prefix(ls[i], key \o <<"=">>) # None
                     \/ strip_prefix(ls[i], key \o <<":">>) # None}
    IN  IF kv # {}
        THEN LET i == CHOOSE i \in kv : \A h \in kv : i <= h
             IN  [processed |-> done \cup {i},
                  out |-> IF strip_prefix(ls[i], key \o <<"=">>) # None
                          THEN Some(strip_prefix(ls[i], key \o <<"=">>)[1])
                          ELSE Some(strip_prefix(ls[i], key \o <<":">>)[1]),
                  form |-> "key value", pos |-> i]
        ELSE [processed |-> done, out |-> None, form |-> "none", pos |-> 0]

NoCall == [op |-> "new", arg |-> <<>>, out |-> None, form |-> "none", pos |-> 0]

\* no Args in use
InitRest ==
    /\ self_args = <<>>
    /\ self_processed = {}
    /\ called = NoCall
    /\ InitShell
    /\ InitLock

\* Args::new(args)
InitArgs ==
    /\ self_args \in ArgLists(MaxArgs)
    /\ self_processed = {}
    /\ called = NoCall

\* a call that marks arguments: the processed set and the note of the call
Marked(op, arg, r) ==
    /\ self_processed' = r.processed
    /\ called' = [op |-> op, arg |-> arg, out |-> r.out, form |-> r.form, pos |-> r.pos]
    /\ UNCHANGED self_args

\* args.has_pop(flag)
HasPop(flag) == Marked("has_pop", flag, has_pop(self_args, self_processed, flag))

\* args.has_val(flag)
HasVal(flag) == Marked("has_val", flag, has_val(self_args, self_processed, flag))

\* args.get_kv(key)
GetKv(key) == Marked("get_kv", key, get_kv(self_args, self_processed, key))

\* args.get(n)
ArgsGet(n) ==
    /\ called' = [op |-> "get", arg |-> n, out |-> args_get(self_args, self_processed, n),
                  form |-> "none", pos |-> 0]
    /\ UNCHANGED <<self_args, self_processed>>

\* args.remaining()
Remaining ==
    /\ called' = [op |-> "remaining", arg |-> <<>>,
                  out |-> remaining(self_args, self_processed), form |-> "none", pos |-> 0]
    /\ UNCHANGED <<self_args, self_processed>>

\* --------------------------------------------------------- specifications
\* the Context store and expand_vars, called by one thread
NextCtx ==
    /\ \/ \E k \in Names, v \in Values : set_var(k, v)
       \/ \E k \in Names : unset_var(k)
       \/ \E k \in Names : get_var(k)
       \/ \E k \in Names : has_var(k)
       \/ QueryReturn
       \/ xpc = "idle" /\ \E t \in Templates : expand_vars(t)
       \/ ExpandReturn
    /\ UNCHANGED <<streamVars, jobVars, envVars, callVars, restVars>>

\* a new Context, no Stream, no job
CtxInit == InitCtx /\ NoStream /\ InitJobs /\ InitEnv /\ InitCalls /\ InitRest
    /\ InitRest

SpecCtx == CtxInit /\ [][NextCtx]_vars

\* one Stream pipeline: from_string, then stages
NextStream ==
    /\ \E args \in SedArgs : SedBlock(args)
    /\ UNCHANGED <<ctxVars, jobVars, envVars, callVars, restVars>>

\* a Stream made from a string, a new Context, no job
StreamInit == InitStream /\ InitCtx /\ InitJobs /\ InitEnv /\ InitCalls /\ InitRest
    /\ InitRest

SpecStream == StreamInit /\ [][NextStream]_vars

\* one Stream pipeline of sort, uniq, unique, cut, tee, to_var and each
PipeInit ==
    /\ InitPipe
    /\ ctx = <<>>
    /\ xpc = "idle"
    /\ xText = <<>>
    /\ xOut = <<>>
    /\ InitJobs
    /\ InitEnv
    /\ InitCalls
    /\ InitRest

NextPipe ==
    /\ process = "running"
    /\ \/ Sort /\ UNCHANGED process
       \/ Uniq /\ UNCHANGED process
       \/ Unique /\ UNCHANGED process
       \/ \E a \in CutArgs : Cut(a[1], a[2]) /\ UNCHANGED process
       \/ \E path \in Paths : Tee(path) /\ UNCHANGED process
       \/ \E var_name \in Names : ToVar(var_name) /\ UNCHANGED process
       \/ Each /\ UNCHANGED process
       \/ \E cmd \in PipeCommands : FromCmd(cmd)
       \/ \E command \in PipeCommands : PipeToCmd(command)
    /\ UNCHANGED <<xpc, xText, xOut, jobVars, callVars, restVars>>

SpecPipe == PipeInit /\ [][NextPipe]_vars

\* job control: two threads call the job macros, the workers run beside them;
\* the Context holds the mode keys and is not written
Init ==
    /\ ctx \in JobCtxs
    /\ xpc = "idle"
    /\ xText = <<>>
    /\ xOut = <<>>
    /\ NoStream
    /\ InitJobs
    /\ InitEnv
    /\ InitCalls
    /\ InitRest

Next ==
    /\ \/ \E t \in Threads, command \in Commands : Background(t, command)
       \/ \E t \in Threads : BgLock(t)
       \/ \E t \in Threads : BgSpawn(t)
       \/ \E t \in Threads : BgInsert(t)
       \/ \E id \in JobIds : WorkerRun(id)
       \/ \E id \in JobIds : WorkerSend(id)
       \/ \E id \in JobIds : WorkerExit(id)
       \/ \E t \in Threads, job_id \in JobIds, timeout \in BOOLEAN : JobWait(t, job_id, timeout)
       \/ \E t \in Threads : WaitRemove(t)
       \/ \E t \in Threads : WaitRecvOk(t)
       \/ \E t \in Threads : WaitRecvErr(t)
       \/ \E t \in Threads : WaitJoin(t)
       \/ \E t \in Threads : WaitMatch(t)
       \/ \E t \in Threads : ArmEnd(t)
       \/ \E t \in Threads : GlyphCheck(t)
       \/ \E t \in Threads : GlyphLockGlyphs(t)
       \/ \E t \in Threads : GlyphLockColors(t)
       \/ \E t \in Threads : ExpandColorsLock(t)
    /\ UNCHANGED <<ctxVars, streamVars, envVars, callVars, restVars>>

Spec == Init /\ [][Next]_vars

\* a program that starts jobs from two threads and waits for them without a
\* timeout, with and without DEBUG_MODE
IdCtxs == {<<>>, (DEBUG_MODE :> CmdTrue)}

IdsInit ==
    /\ ctx \in IdCtxs
    /\ xpc = "idle"
    /\ xText = <<>>
    /\ xOut = <<>>
    /\ NoStream
    /\ InitJobs
    /\ InitEnv
    /\ InitCalls
    /\ InitRest

NextIds ==
    /\ \/ \E t \in Threads : Background(t, CmdTrue)
       \/ \E t \in Threads : BgLock(t)
       \/ \E t \in Threads : BgSpawn(t)
       \/ \E t \in Threads : BgInsert(t)
       \/ \E id \in JobIds : WorkerRun(id)
       \/ \E id \in JobIds : WorkerSend(id)
       \/ \E id \in JobIds : WorkerExit(id)
       \/ \E t \in Threads, job_id \in JobIds : JobWait(t, job_id, FALSE)
       \/ \E t \in Threads : WaitRemove(t)
       \/ \E t \in Threads : WaitRecvOk(t)
       \/ \E t \in Threads : WaitJoin(t)
       \/ \E t \in Threads : WaitMatch(t)
       \/ \E t \in Threads : ArmEnd(t)
       \/ \E t \in Threads : GlyphCheck(t)
       \/ \E t \in Threads : GlyphLockGlyphs(t)
       \/ \E t \in Threads : GlyphLockColors(t)
       \/ \E t \in Threads : ExpandColorsLock(t)
    /\ UNCHANGED <<ctxVars, streamVars, envVars, callVars, restVars>>

SpecIds == IdsInit /\ [][NextIds]_vars

\* a program that starts jobs, waits for them and lists them from two
\* threads, and may turn DEBUG_MODE on while it does
RegistryInit ==
    /\ InitCtx
    /\ NoStream
    /\ InitJobs
    /\ InitEnv
    /\ InitCalls
    /\ InitRest

NextRegistry ==
    \/ /\ \/ \E t \in Threads : Background(t, CmdTrue)
          \/ \E t \in Threads : BgLock(t)
          \/ \E t \in Threads : BgSpawn(t)
          \/ \E t \in Threads : BgInsert(t)
          \/ \E id \in JobIds : WorkerRun(id)
          \/ \E id \in JobIds : WorkerSend(id)
          \/ \E id \in JobIds : WorkerExit(id)
          \/ \E t \in Threads, job_id \in JobIds : JobWait(t, job_id, FALSE)
          \/ \E t \in Threads : WaitRemove(t)
          \/ \E t \in Threads : WaitRecvOk(t)
          \/ \E t \in Threads : WaitJoin(t)
          \/ \E t \in Threads : WaitMatch(t)
          \/ \E t \in Threads : ArmEnd(t)
          \/ \E t \in Threads : JobList(t)
          \/ \E t \in Threads : ListLock(t)
          \/ \E t \in Threads : ListEcho(t)
          \/ \E t \in Threads : ListEnd(t)
          \/ \E t \in Threads : GlyphCheck(t)
          \/ \E t \in Threads : GlyphLockGlyphs(t)
          \/ \E t \in Threads : GlyphLockColors(t)
          \/ \E t \in Threads : ExpandColorsLock(t)
       /\ UNCHANGED <<ctxVars, streamVars, envVars, callVars, restVars>>
    \/ /\ ~has(ctx, DEBUG_MODE)
       /\ set_var(DEBUG_MODE, CmdTrue)
       /\ UNCHANGED <<streamVars, jobVars, envVars, callVars, restVars>>

SpecRegistry == RegistryInit /\ [][NextRegistry]_vars

\* two threads expand texts, run commands and write the store
ShellInit ==
    /\ InitCtx
    /\ NoStream
    /\ InitJobs
    /\ InitEnv
    /\ InitCalls
    /\ InitRest

NextShell ==
    /\ \/ \E t \in Threads, text \in ShellTexts : ExpandVars(t, text)
       \/ \E t \in Threads, cmd \in ShellTexts : RunCmdWithStatus(t, cmd)
       \/ \E t \in Threads, cmd \in ShellTexts : StreamFromCmd(t, cmd)
       \/ \E t \in Threads, command \in ShellTexts : StreamPipeToCmd(t, command)
       \/ \E t \in Threads : CtxLock(t)
       \/ \E t \in Threads : ExpandBraced(t)
       \/ \E t \in Threads : ExpandSimple(t)
       \/ \E t \in Threads : CommandSpawn(t)
       \/ \E t \in Threads : CommandOutput(t)
       \/ \E t \in Threads : ShellReturn(t)
       \/ \E t \in Threads, key \in Names, value \in ShellValues : SetVar(t, key, value)
       \/ \E t \in Threads, key \in Names : UnsetVar(t, key)
    /\ UNCHANGED <<xpc, xText, xOut, streamVars, jobVars, files, seen, callVars,
                    argVars, lockVars>>

SpecShell == ShellInit /\ [][NextShell]_vars

\* two processes take and give back the lock on one path
LockInit ==
    /\ InitCtx
    /\ NoStream
    /\ InitJobs
    /\ InitEnv
    /\ InitCalls
    /\ InitRest

NextLock ==
    /\ \/ \E t \in Threads : CreateLock(t)
       \/ \E t \in Threads : LockExists(t)
       \/ \E t \in Threads : LockRead(t)
       \/ \E t \in Threads : ProcessExistsByPid(t)
       \/ \E t \in Threads : LockRemoveStale(t)
       \/ \E t \in Threads : LockCreate(t)
       \/ \E t \in Threads : LockWrite(t)
       \/ \E t \in Threads : LockRefused(t)
       \/ \E t \in Threads : RemoveLock(t)
       \/ \E t \in Threads : ProcessEnds(t)
    /\ UNCHANGED <<ctxVars, streamVars, jobVars, seen, process, callVars, argVars, shellVars>>

SpecLock == LockInit /\ [][NextLock]_vars

\* a handler working through its Args
ArgsInit ==
    /\ InitCtx
    /\ NoStream
    /\ InitJobs
    /\ InitEnv
    /\ InitCalls
    /\ InitArgs
    /\ InitShell
    /\ InitLock

NextArgs ==
    /\ \/ \E flag \in ArgFlags : HasPop(flag)
       \/ \E flag \in ArgFlags : HasVal(flag)
       \/ \E key \in ArgFlags : GetKv(key)
       \/ \E n \in 0..(MaxArgs + 1) : ArgsGet(n)
       \/ Remaining
    /\ UNCHANGED <<ctxVars, streamVars, jobVars, envVars, callVars, shellVars, lockVars>>

SpecArgs == ArgsInit /\ [][NextArgs]_vars

\* handlers dispatched from the threads of the process
DispatchInit ==
    /\ InitCtx
    /\ NoStream
    /\ InitJobs
    /\ InitEnv
    /\ InitCalls
    /\ InitRest

NextDispatch ==
    /\ \/ \E t \in Threads, command \in DispatchCmds :
              Dispatch(t, <<"prog", command>>, "macros/dispatch.rs")
       \/ \E t \in Threads, command \in DispatchCmds, is_test \in BOOLEAN :
              PreDispatch(t, command, is_test)
       \/ \E t \in Threads : PushCall(t)
       \/ \E t \in Threads, result \in HandlerResults : Handler(t, result)
       \/ \E t \in Threads : PopCall(t)
       \/ \E t \in Threads : DispatchEnd(t)
    /\ UNCHANGED <<xpc, xText, xOut, streamVars, jobVars, files, seen, restVars>>

SpecDispatch == DispatchInit /\ [][NextDispatch]_vars

\* the command lines given to dispatch!
ArgvSamples ==
    {<<"prog">>} \cup {<<"prog", c>> : c \in HandlerCmds \cup BuiltinCmds \cup {"nonexistentcommand"}}
        \cup {<<"prog", "deploy", "x">>}

\* dispatch! called with a command line, under each of its definitions
NextCli ==
    \/ /\ \/ \E t \in Threads, args_vec \in ArgvSamples, def \in DispatchDefs :
                 Dispatch(t, args_vec, def)
          \/ \E t \in Threads : PushCall(t)
          \/ \E t \in Threads, result \in HandlerResults : Handler(t, result)
          \/ \E t \in Threads : PopCall(t)
          \/ \E t \in Threads : DispatchEnd(t)
       /\ UNCHANGED <<xpc, xText, xOut, streamVars, jobVars, files, seen, restVars>>
    \/ /\ \E t \in Threads : DispatchError(t)
       /\ UNCHANGED <<xpc, xText, xOut, streamVars, files, seen, restVars>>
    \/ /\ process = "running"
       /\ \/ \E t \in Threads : GlyphCheck(t)
          \/ \E t \in Threads : GlyphLockGlyphs(t)
          \/ \E t \in Threads : GlyphLockColors(t)
          \/ \E t \in Threads : ExpandColorsLock(t)
       /\ UNCHANGED <<ctxVars, streamVars, envVars, callVars, restVars>>

CliInit == DispatchInit

SpecCli == CliInit /\ [][NextCli]_vars

\* handlers that write the store and look at the call stack, dispatched by
\* pre_dispatch! from two test threads
NextFrames ==
    /\ \/ \E t \in Threads : PreDispatch(t, "build", TRUE)
       \/ \E t \in Threads : PushCall(t)
       \/ \E t \in Threads : HandlerSetVar(t, HandlerKey, HandlerValue)
       \/ \E t \in Threads : HandlerUnsetVar(t, HandlerKey)
       \/ \E t \in Threads : HandlerGetCallStack(t)
       \/ \E t \in Threads : Handler(t, 0)
       \/ \E t \in Threads : PopCall(t)
       \/ \E t \in Threads : DispatchEnd(t)
    /\ UNCHANGED <<xpc, xText, xOut, streamVars, jobVars, files, seen, restVars>>

FramesInit == DispatchInit

SpecFrames == FramesInit /\ [][NextFrames]_vars

\* ------------------------------------------------ claims on job control
\* the Mutex::lock a thread is blocked in, if any
WaitsOn(t) ==
    CASE pc[t] = "bg_lock" -> "JOB_COUNTER"
      [] pc[t] \in {"bg_insert", "wait_on_job", "list_lock"} -> "JOBS"
      [] pc[t] = "glyphs_lock" -> "GLYPHS"
      [] pc[t] = "colors_lock" -> "COLORS"
      [] OTHER -> "none"

\* the macro call thread t is in can not return to its caller any more: the
\* thread has panicked, it is blocked on a Mutex it holds itself, or it is
\* blocked on a Mutex held by a thread blocked in that way
NeverReturns(t) ==
    \/ pc[t] \in {"deadlocked", "panicked"}
    \/ /\ WaitsOn(t) # "none"
       /\ \E u \in Threads \ {t} :
              mutex[WaitsOn(t)].holder = u /\ pc[u] = "deadlocked"

InWait(t) == loc[t].arm = "wait" /\ pc[t] # "idle"

\* C1: the first wait on an id removes the job from the registry; every later
\* wait on that id gets the not-found error at once: it does not block in a
\* receive or a join, and it returns.
C1_LaterWaitReturnsNotFound ==
    \A t \in Threads :
        (InWait(t) /\ loc[t].late)
            => /\ loc[t].job_id \notin DOMAIN JOBS
               /\ pc[t] \notin {"recv", "join"}
               /\ loc[t].ret \in {None, Some(Err(NotFound(loc[t].job_id)))}
               /\ ~NeverReturns(t)

\* C2: a wait with a timeout whose deadline runs out before the worker has
\* sent returns the timed-out error without joining the worker; the worker
\* goes on, its result is delivered to no waiter, and the job is out of the
\* registry.
C2_TimedOutWaitReturns ==
    \A t \in Threads :
        (InWait(t) /\ loc[t].ret = Some(Err(Timeout)))
            => /\ loc[t].timeout
               /\ loc[t].job_id \notin DOMAIN JOBS
               /\ chan[loc[t].job_id].queue = <<>>
               /\ \A u \in Threads :
                      (loc[u].job_id = loc[t].job_id) => loc[u].received = None
               /\ ~NeverReturns(t)

\* C3: a wait without a timeout on a registered job returns, and what it
\* returns is the status the worker's shell invocation came to.
C3_WaitReturnsStatus ==
    \A t \in Threads :
        (InWait(t) /\ ~loc[t].timeout /\ loc[t].registered
                /\ (loc[t].job_id \in DOMAIN JOBS \/ loc[t].job_arc))
            => /\ loc[t].ret # None =>
                      loc[t].ret = Some(Ok(worker[loc[t].job_id].result[1]))
               /\ ~NeverReturns(t)

\* C4: the not-found error and the timed-out error are two values, the caller
\* can tell them apart, and after either the caller goes on: the wait neither
\* panics nor hangs.
C4_NotFoundAndTimedOutRecoverable ==
    \A t \in Threads :
        (InWait(t) /\ loc[t].ret # None /\ ~loc[t].ret[1].ok)
            => /\ loc[t].ret[1].error \in {Timeout, NotFound(loc[t].job_id)}
               /\ Timeout # NotFound(loc[t].job_id)
               /\ (loc[t].ret[1].error = Timeout) <=> loc[t].job_arc
               /\ pc[t] # "panicked"
               /\ ~NeverReturns(t)

\* the ids the background arm has given out and that are still to be seen:
\* in the locals or the value of a background call, in JOBS, or removed by a
\* wait
IdsOfCalls == {loc[t].job_id : t \in {u \in Threads : loc[u].arm = "background"}} \ {0}
IdsKnown == IdsOfCalls \cup DOMAIN JOBS \cup taken

\* thread t takes its id in this step
TakesId(t) == pc[t] = "bg_lock" /\ pc'[t] = "bg_spawn"

\* C18: ids come from a counter that only grows: the id a background call
\* takes is greater than every id given out before it, two calls never have
\* the same id (also when they run at the same time), the id of a job that a
\* wait removed is not given out again, and no id in the registry is above
\* the counter.
C18_JobIdsGrowAndAreNeverShared ==
    /\ [](\A id \in IdsKnown : 1 <= id /\ id <= JOB_COUNTER)
    /\ [](\A id \in DOMAIN JOBS : JOBS[id].id = id)
    /\ [](\A t, u \in Threads :
             (t # u /\ loc[t].arm = "background" /\ loc[u].arm = "background"
                    /\ loc[t].job_id # 0)
                 => loc[t].job_id # loc[u].job_id)
    /\ [][/\ JOB_COUNTER' >= JOB_COUNTER
          /\ taken \subseteq taken'
          /\ \A t \in Threads :
                 TakesId(t) => /\ loc'[t].job_id = JOB_COUNTER'
                               /\ \A id \in IdsKnown : id < loc'[t].job_id]_vars

\* the ids 1 and 2 were given out and a call has returned 2; a wait removed
\* job 1, job 2 is in the registry
C18_Witness ==
    /\ \E t \in Threads :
           /\ loc[t].arm = "background"
           /\ pc[t] = "idle"
           /\ loc[t].status = Some(2)
    /\ taken = {1}
    /\ DOMAIN JOBS = {2}
    /\ JOB_COUNTER = 2

\* thread t is in the background arm, between the call and its value
InBackground(t) == loc[t].arm = "background" /\ pc[t] # "idle"

\* C19: background(command) does not block: in every reachable state a call
\* that is under way can still come to its end, with the job registered under
\* its new id and that id returned, whatever the command is doing.
C19_BackgroundAlwaysReturnsId ==
    \A t \in Threads : InBackground(t) => ~NeverReturns(t)

\* C20: the frames are a stack balanced around the handler: the macros push
\* one frame before the handler and pop one after it, pop_call takes off the
\* frame pushed last, and once the handler of a dispatch has returned and the
\* frame is popped the stack is what it was before that dispatch.
C20_StackBalancedAroundHandler ==
    \A t \in Threads : dpc[t] = "popped" => CALL_STACK = dloc[t].before

\* a step of set_var or unset_var
WritesStore == ctx' # ctx

\* the frames the threads hold: taken from get_call_stack or from pop_call
FramesHeld == [t \in Threads |-> <<dloc[t].stack, dloc[t].popped>>]

\* C21: the snapshot of a frame is a copy of the variables made when
\* push_call runs: the frame pushed carries the store's content of that
\* moment, and a later set_var or unset_var changes neither the frames on the
\* stack nor the frames a caller has from get_call_stack or pop_call.
C21_SnapshotIsCopyAtPush ==
    /\ [][\A t \in Threads :
              (dpc[t] = "push_call" /\ dpc'[t] = "handler")
                  => /\ Len(CALL_STACK') = Len(CALL_STACK) + 1
                     /\ CALL_STACK'[Len(CALL_STACK')].context_snapshot = ctx]_vars
    /\ [][WritesStore => /\ CALL_STACK' = CALL_STACK
                         /\ FramesHeld' = FramesHeld]_vars

\* a frame on the stack, a frame in a Vec from get_call_stack and a frame
\* returned by pop_call each carry a snapshot that the store has since left
C21_Witness ==
    /\ CALL_STACK # <<>>
    /\ CALL_STACK[1].context_snapshot = <<>>
    /\ ctx = (<<"A">> :> <<"-">>)
    /\ \E t \in Threads :
           /\ dloc[t].stack # <<>>
           /\ dloc[t].stack[1].context_snapshot = <<>>
    /\ \E t \in Threads :
           /\ dloc[t].popped # <<>>
           /\ dloc[t].popped[1].context_snapshot # ctx

\* the exit status dispatch! is to end with, for a handler result
ExpectedStatus(args_vec, result) ==
    IF CommandOf(args_vec) \in HandlerCmds THEN result
    ELSE IF CommandOf(args_vec) \in BuiltinCmds THEN 0
    ELSE 1

\* thread t is in dispatch! and can not come to an exit any more
DispatchStuck(t) ==
    \/ dpc[t] = "panicked"
    \/ dpc[t] = "unknown" /\ NeverReturns(t)

\* C22: for every argv of length >= 1 dispatch! does not panic and comes to
\* an exit with the status of its arm: the result of the handler, run once,
\* for a command of the table; 0 for help (also when argv[1] is missing),
\* --help, -h, inspect and stack; 1, after 'Unknown command', for any other
\* name.
C22_DispatchExitsWithArmStatus ==
    \A t \in Threads :
        dloc[t].macro = "dispatch"
            => /\ ~DispatchStuck(t)
               /\ dloc[t].runs <= 1
               /\ dloc[t].exit_status # None
                      => /\ dloc[t].exit_status =
                                Some(ExpectedStatus(dloc[t].args_vec, dloc[t].result))
                         /\ dloc[t].command \in HandlerCmds => dloc[t].runs = 1

\* the positions of the arguments that are not marked processed
Unmarked == (1..Len(self_args)) \ self_processed

\* the n-th of a set of positions, 0 when there are fewer
NthOf(I, n) ==
    IF n >= 1 /\ n <= Cardinality(I)
    THEN CHOOSE i \in I : Cardinality({h \in I : h < i}) = n - 1
    ELSE 0

\* C23: remaining() is the arguments not marked processed in their order,
\* get(n) is the n-th of them and the empty string for n = 0 or past the end;
\* a has_val that takes its value from the argument after the flag marks the
\* flag and the value, which are both gone from remaining(); the processed
\* set never loses a position.
C23_ArgsTrackProcessed ==
    /\ [](/\ Len(remaining(self_args, self_processed)) = Cardinality(Unmarked)
          /\ \A n \in 0..(MaxArgs + 1) :
                 args_get(self_args, self_processed, n) =
                     IF NthOf(Unmarked, n) = 0 THEN <<>> ELSE self_args[NthOf(Unmarked, n)])
    /\ [](called.op = "remaining"
             => /\ Len(called.out) = Cardinality(Unmarked)
                /\ \A n \in 1..Len(called.out) : called.out[n] = self_args[NthOf(Unmarked, n)])
    /\ [](called.op = "get" => called.out = args_get(self_args, self_processed, called.arg))
    /\ []((called.op = "has_val" /\ called.form = "flag value")
             => /\ self_args[called.pos] = called.arg
                /\ called.out = Some(self_args[called.pos + 1])
                /\ {called.pos, called.pos + 1} \subseteq self_processed
                /\ Len(remaining(self_args, self_processed)) <= Len(self_args) - 2)
    /\ [][self_processed \subseteq self_processed']_vars

\* has_val("-f") took "x" from the argument after the flag; the third
\* argument, another "x", is what remains
C23_Witness ==
    /\ self_args = << <<"-", "f">>, <<"x">>, <<"x">> >>
    /\ called.op = "has_val"
    /\ called.form = "flag value"
    /\ called.out = Some(<<"x">>)
    /\ self_processed = {1, 2}
    /\ remaining(self_args, self_processed) = << <<"x">> >>

\* two threads are in a wait on one id that was in JOBS when each of them
\* called
SameRegisteredWait(t, u) ==
    /\ t # u
    /\ InWait(t) /\ InWait(u)
    /\ loc[t].job_id = loc[u].job_id
    /\ loc[t].registered /\ loc[u].registered

\* the handle went to one of two such waits only, the result was received by
\* one only, and a wait that was told 'not found' lost the handle to another
HandleToOneOnly(t, u) ==
    /\ ~(loc[t].job_arc /\ loc[u].job_arc)
    /\ ~(loc[t].received # None /\ loc[u].received # None)
    /\ loc[t].ret = Some(Err(NotFound(loc[t].job_id)))
           => (~loc[t].job_arc /\ loc[t].job_id \in taken)

\* C24: of two waits called at the same time on one registered id exactly one
\* obtains the handle, and with it the result or the timeout, and the other
\* gets 'not found': the result goes to one of them, never to both and never
\* to neither, so each of the two calls comes to its value.
C24_ConcurrentWaitsOneTakesHandle ==
    \A t, u \in Threads :
        SameRegisteredWait(t, u) => (HandleToOneOnly(t, u) /\ ~NeverReturns(t))

\* what holds of the two waits up to the return of wait_on_job
C24_HandleToOneOnly ==
    \A t, u \in Threads : SameRegisteredWait(t, u) => HandleToOneOnly(t, u)

\* thread t is blocked in the receive of wait_on_job
BlockedInWait(t) == pc[t] = "recv" /\ chan[loc[t].job_id].queue = <<>>

\* thread t is in a logging call that has gone on to print
Printing(t) == pc[t] \in {"glyphs_lock", "colors_lock", "expand_colors", "deadlocked"}

\* C25: the lock of the job registry is held across the insert and the remove
\* of a handle only, never across a blocking receive, and while one thread is
\* blocked in a wait the background, wait and list calls of another thread
\* come to their end without waiting for it.
C25_RegistryLockOnlyAcrossInsertRemove ==
    /\ \A t \in Threads :
           pc[t] \in {"recv", "join"} => mutex["JOBS"].holder # t
    /\ \A t \in Threads : mutex["JOBS"].holder = t => ~Printing(t)
    /\ \A t, u \in Threads :
           (t # u /\ BlockedInWait(t) /\ pc[u] # "idle") => ~NeverReturns(u)

\* thread t is starting `sh -c` or waiting for it to end
AtSubprocess(t) == spc[t] \in {"spawn", "child"}

BracedAndBare == <<"$", "{", "A", "}", "$", "B">>

\* C27: in one expand_vars call the braced pass is done before the bare pass
\* begins and both passes read one state of the store: the store does not
\* change while a thread holds the lock, the bare pass runs over what the
\* braced pass made of the text with the store as it still is, and the string
\* returned is the expansion of the text under that one store; a set_var or
\* unset_var of another thread comes before the whole expansion or after it.
C27_ExpansionSeesOneStore ==
    /\ [](\A t \in Threads :
              spc[t] = "simple" => /\ CTX = t
                                   /\ sloc[t].braced = BracedPass(ctx, sloc[t].text, 1))
    /\ [][CTX # NoThread => ctx' = ctx]_vars
    /\ [][\A t \in Threads :
              (spc[t] = "simple" /\ spc'[t] # "simple")
                  => sloc'[t].out = expand(ctx, sloc[t].text)]_vars
    /\ [][\A t \in Threads : spc'[t] = "simple" => spc[t] \in {"braced", "simple"}]_vars

\* expand_vars("${A}$B") has returned "true": B was not set when it ran, and
\* the set_var of B by the other thread came after it
C27_Witness ==
    /\ sloc["t1"].op = "expand_vars"
    /\ sloc["t1"].text = BracedAndBare
    /\ spc["t1"] = "returned"
    /\ sloc["t1"].out = CmdTrue
    /\ ctx = (<<"A">> :> CmdTrue) @@ (<<"B">> :> CmdFalse)
    /\ spc["t2"] = "idle"

\* thread t asks for a Mutex that it holds itself
LocksItsOwn(t) ==
    \/ pc[t] = "expand_colors" /\ mutex["COLORS"].holder = t
    \/ WaitsOn(t) # "none" /\ mutex[WaitsOn(t)].holder = t

\* C28: no thread blocks for ever on one of the process-wide locks: no call
\* asks for a Mutex its own thread holds, so every logging call and every
\* job operation drops its locks and returns.
C28_NoThreadBlocksForEverOnLock ==
    \A t \in Threads : ~LocksItsOwn(t) /\ ~NeverReturns(t)

\* process t has Ok from create_lock and has not called remove_lock
HoldsLock(t) == lpc[t] = "returned" /\ lloc[t].result = Some("Ok")

\* C30: create_lock gives mutual exclusion on a path: of the calls made while
\* no lock is held at most one returns Ok, and while a process that got Ok
\* runs and has not called remove_lock no other create_lock returns Ok.
C30_CreateLockMutualExclusion ==
    \A t, u \in Threads : (HoldsLock(t) /\ HoldsLock(u)) => t = u

\* ------------------------------------------------ claims on the stages
\* the elements of ls at the indices in I, in their order
SubseqAt(ls, I) ==
    LET F[i \in 0..Len(ls)] ==
            IF i = 0 THEN <<>>
            ELSE IF i \in I THEN Append(F[i - 1], ls[i]) ELSE F[i - 1]
    IN  F[Len(ls)]

LineSet(ls) == {ls[i] : i \in 1..Len(ls)}

\* a stage has been applied, and another one before it
AfterTwoStages == nStages >= 2

\* C11: tee, to_var and each return a Stream with the lines of the Stream they
\* were called on, same lines in the same order, so the stage that follows
\* them is given what the stage before them produced.
C11_TeeToVarEachKeepLines ==
    /\ (nStages >= 1 /\ stage.op \in {"tee", "to_var", "each"}) => lines = stage.input
    /\ (AfterTwoStages /\ stage.prev.op \in {"tee", "to_var", "each"})
           => stage.input = stage.prev.input

\* a tee wrote its file and the sort after it sorted the lines given to the tee
C11_Witness ==
    /\ AfterTwoStages
    /\ stage.op = "sort"
    /\ stage.prev.op = "tee"
    /\ stage.prev.input = <<<<"b">>, <<"a">>>>
    /\ files = (<<"o">> :> <<"b", NL, "a">>)
    /\ lines = <<<<"a">>, <<"b">>>>

\* s does not end in a line feed
NoTrailingNewline(s) == s = <<>> \/ s[Len(s)] # NL

\* C12: for a string of lines joined by line feeds, without a line feed at
\* its end, from_string and then to_string give the string back.
C12_FromStringToStringRoundTrip ==
    (stage.op = "from_string" /\ NoTrailingNewline(stage.input))
        => to_string(lines) = stage.input

\* C13: what sort().uniq() returns is in non-decreasing lexicographic order,
\* has no two adjacent equal lines, and has exactly the lines of the input as
\* a set.
C13_SortUniqSortedDistinct ==
    (AfterTwoStages /\ stage.op = "uniq" /\ stage.prev.op = "sort")
        => /\ \A i \in 1..(Len(lines) - 1) :
                  StrLeq(lines[i], lines[i + 1]) /\ lines[i] # lines[i + 1]
           /\ LineSet(lines) = LineSet(stage.prev.input)

\* three lines out of order with a repeat came out as two, in order
C13_Witness ==
    /\ AfterTwoStages
    /\ stage.op = "uniq"
    /\ stage.prev.op = "sort"
    /\ stage.prev.input = <<<<"b">>, <<"B">>, <<"b">>>>
    /\ lines = <<<<"B">>, <<"b">>>>

\* the number of fields of a line: one more than the matches of the delimiter
\* found from the left without overlap
RECURSIVE NumFields(_, _)
NumFields(line, d) ==
    IF ~Contains(line, d) THEN 1
    ELSE LET i == CHOOSE i \in 1..Len(line) :
                      /\ SubSeq(line, i, i + Len(d) - 1) = d
                      /\ \A h \in 1..(i - 1) : SubSeq(line, h, h + Len(d) - 1) # d
         IN  1 + NumFields(SubSeq(line, i + Len(d), Len(line)), d)

\* the k-th field of a line that has at least k fields
RECURSIVE FieldAt(_, _, _)
FieldAt(line, d, k) ==
    IF ~Contains(line, d) THEN line
    ELSE LET i == CHOOSE i \in 1..Len(line) :
                      /\ SubSeq(line, i, i + Len(d) - 1) = d
                      /\ \A h \in 1..(i - 1) : SubSeq(line, h, h + Len(d) - 1) # d
         IN  IF k = 1 THEN SubSeq(line, 1, i - 1)
             ELSE FieldAt(SubSeq(line, i + Len(d), Len(line)), d, k - 1)

\* C14: cut(field, delimiter) with field >= 1 gives, for each line with at
\* least `field` fields, its field-th field, in the order of the lines; a line
\* with fewer fields gives nothing.
C14_CutTakesFieldDropsShort ==
    (nStages >= 1 /\ stage.op = "cut" /\ stage.args[1] >= 1)
        => LET ls == stage.input
               k == stage.args[1]
               d == stage.args[2]
               long == {i \in 1..Len(ls) : NumFields(ls[i], d) >= k}
           IN  lines = SubseqAt([i \in 1..Len(ls) |->
                                    IF i \in long THEN FieldAt(ls[i], d, k) ELSE <<>>],
                                long)

\* the second field of three lines: one has it, one has none, one has an
\* empty one
C14_Witness ==
    /\ nStages >= 1
    /\ stage.op = "cut"
    /\ stage.args = <<2, <<",">>>>
    /\ stage.input = <<<<"a", ",", "b">>, <<"a">>, <<"b", ",", ",", "a">>>>
    /\ lines = <<<<"b">>, <<>>>>

\* C15: uniq removes a line exactly when it equals the line before it;
\* unique keeps exactly the first occurrence of every line, in first-seen
\* order.
C15_UniqAdjacentUniqueAll ==
    /\ (nStages >= 1 /\ stage.op = "uniq")
           => lines = SubseqAt(stage.input,
                  {i \in 1..Len(stage.input) : i = 1 \/ stage.input[i] # stage.input[i - 1]})
    /\ (nStages >= 1 /\ stage.op = "unique")
           => lines = SubseqAt(stage.input,
                  {i \in 1..Len(stage.input) :
                       \A h \in 1..(i - 1) : stage.input[h] # stage.input[i]})

\* a repeat that is not adjacent went through uniq and was removed by unique
C15_Witness ==
    /\ AfterTwoStages
    /\ stage.op = "unique"
    /\ stage.prev.op = "uniq"
    /\ stage.prev.input = <<<<"a">>, <<"b">>, <<"a">>>>
    /\ stage.input = <<<<"a">>, <<"b">>, <<"a">>>>
    /\ lines = <<<<"a">>, <<"b">>>>

\* C17: no operation ends the process: when the command given to from_cmd or
\* pipe_to_cmd cannot be started or exits with a status other than 0, the
\* caller gets a value back and the process neither exits nor panics.
C17_CommandFailureNeverEndsProcess == process = "running"

\* C29: in a Stream made by from_string and any chain of stages given
\* arguments without a line feed no element contains a line feed, so the
\* number of elements (count, to_vec) is the number of lines of to_string.
C29_NoElementContainsNewline ==
    /\ \A i \in 1..Len(lines) : \A j \in 1..Len(lines[i]) : lines[i][j] # NL
    /\ lines # <<>> => Len(split(to_string(lines), <<NL>>)) = Len(lines)

\* ------------------------------------------------- claims on the Context
\* what the specification says expand returns: one scan of the template in
\* which every ${name} and every $name token is replaced by the value of name
\* (nothing for an unknown name) and every other character is kept
RECURSIVE Substituted(_, _, _)
Substituted(M, s, i) ==
    IF i > Len(s) THEN <<>>
    ELSE LET b == braced_re(s, i)
             n == simple_re(s, i)
         IN  IF b > 0
             THEN get(M, SubSeq(s, i + 2, i + b - 2)) \o Substituted(M, s, i + b)
             ELSE IF n > 0
             THEN get(M, SubSeq(s, i + 1, i + n - 1)) \o Substituted(M, s, i + n)
             ELSE <<s[i]>> \o Substituted(M, s, i + 1)

\* the text is exactly one token, ${name} or $name, and this is its name
IsToken(s, name) ==
    \/ s = <<"$", "{">> \o name \o <<"}">>
    \/ s = <<"$">> \o name

NoDollarValues == \A k \in DOMAIN ctx : ~Contains(ctx[k], <<"$">>)

\* every '$' of the text starts a well-formed ${name} or $name token
AllDollarsAreTokens(s) ==
    \A i \in 1..Len(s) : s[i] = "$" => (braced_re(s, i) > 0 \/ simple_re(s, i) > 0)

\* C5: expand returns the template with every ${k} and $k token replaced by
\* the value of k in the map (the empty string when k is not in the map) and
\* with all other text, a malformed "${" included, kept as it is.
C5_ExpandSubstitutesEveryToken ==
    xpc = "expanded" => xOut = Substituted(ctx, xText, 1)

\* C6: expand is not recursive: a token whose value contains '$' is replaced
\* by that value verbatim; the value is not scanned for variables again.
C6_ValueWithDollarVerbatim ==
    \A k \in DOMAIN ctx :
        (xpc = "expanded" /\ IsToken(xText, k) /\ Contains(ctx[k], <<"$">>))
            => xOut = ctx[k]

\* C7 as stated: when no value of the map contains '$', expanding the result
\* of expand again changes nothing.
C7_IdempotentAsClaimed ==
    (xpc = "expanded" /\ NoDollarValues) => expand(ctx, xOut) = xOut

\* C7 as amended: when no value of the map contains '$' and every '$' of the
\* template starts a well-formed ${name} or $name token, expanding the result
\* of expand again changes nothing.
C7_IdempotentOnTokenTemplates ==
    (xpc = "expanded" /\ NoDollarValues /\ AllDollarsAreTokens(xText))
        => expand(ctx, xOut) = xOut

\* a template with both token forms and a known key was expanded to something
\* else than itself, under a map without '$' in its values
C7_Witness ==
    /\ xpc = "expanded"
    /\ NoDollarValues
    /\ xText = <<"$", "A", "$", "A">>
    /\ <<"A">> \in DOMAIN ctx
    /\ ctx[<<"A">>] = <<"-">>
    /\ xOut = <<"-", "-">>

\* what get and has tell about every key
Answers(M) == [k \in Names |-> <<get(M, k), has(M, k)>>]

\* C16: set(k, v) writes k and nothing else: after it get(k) is v and has(k)
\* is true, and get and has of every other key are what they were; get of a
\* key that is not there returns the empty string and has returns false,
\* while has of a key set to the empty string returns true.
C16_SetWritesOneKeyHasTellsAbsent ==
    /\ [][\A k \in Names, v \in Values :
              set_var(k, v) =>
                  /\ get(ctx', k) = v
                  /\ has(ctx', k)
                  /\ \A o \in Names \ {k} : Answers(ctx')[o] = Answers(ctx)[o]]_vars
    /\ [](xpc = "got" /\ xText \notin DOMAIN ctx => xOut = <<>>)
    /\ [](xpc = "asked" => (xOut <=> xText \in DOMAIN ctx))

\* has_var on a key that was set to the empty string, while the other key is
\* not there
C16_Witness ==
    /\ xpc = "asked"
    /\ xText = <<"A">>
    /\ DOMAIN ctx = {<<"A">>}
    /\ ctx[<<"A">>] = <<>>
    /\ get(ctx, <<"B">>) = get(ctx, <<"A">>)
    /\ xOut = TRUE

\* -------------------------------------------------- claims on the Stream
\* the index of the first line of ls[from..] that contains p, 0 if none does
FirstLineWith(ls, p, from) ==
    IF \E i \in from..Len(ls) : Contains(ls[i], p)
    THEN CHOOSE i \in from..Len(ls) :
             Contains(ls[i], p) /\ \A h \in from..(i - 1) : ~Contains(ls[h], p)
    ELSE 0

\* what the specification says sed_block returns: each run of lines from the
\* first line with the start marker through the next later line with the end
\* marker has the start marker replaced and the end marker removed; every
\* other line, a run that is never closed included, is kept
RECURSIVE BlocksReplaced(_, _, _, _)
BlocksReplaced(ls, start, end, repl) ==
    LET i == FirstLineWith(ls, start, 1)
        j == IF i = 0 THEN 0 ELSE FirstLineWith(ls, end, i + 1)
    IN  IF j = 0 THEN ls
        ELSE SubSeq(ls, 1, i - 1)
                 \o <<replace(replace(join(SubSeq(ls, i, j), <<NL>>), start, repl),
                              end, <<>>)>>
                 \o BlocksReplaced(SubSeq(ls, j + 1, Len(ls)), start, end, repl)

SedBlockApplied == stage.op = "sed_block"

\* a line with the start marker that no line with the end marker follows
SomeStartNeverClosed(ls, start, end) ==
    \E i \in 1..Len(ls) :
        /\ Contains(ls[i], start)
        /\ \A j \in (i + 1)..Len(ls) : ~Contains(ls[j], end)

\* the first line with the start marker is followed by no line with the end
\* marker
FirstStartNeverClosed(ls, start, end) ==
    LET i == FirstLineWith(ls, start, 1)
    IN  i # 0 /\ FirstLineWith(ls, end, i + 1) = 0

\* a line with the start marker and a later line with the end marker
SomeBlockClosed(ls, start, end) ==
    \E i \in 1..Len(ls) : \E j \in (i + 1)..Len(ls) :
        Contains(ls[i], start) /\ Contains(ls[j], end)

\* C8 as stated: when some line has the start marker and no later line has the
\* end marker, sed_block returns the lines it was given.
C8_FailOpenAsClaimed ==
    (SedBlockApplied /\ SomeStartNeverClosed(stage.input, stage.start_pattern, stage.end_pattern))
        => lines = stage.input

\* C8 as amended: when the first line with the start marker is followed by no
\* line with the end marker, sed_block returns the lines it was given, each
\* line kept, in order, markers unreplaced.
C8_FailOpenFirstStart ==
    (SedBlockApplied /\ FirstStartNeverClosed(stage.input, stage.start_pattern, stage.end_pattern))
        => lines = stage.input

\* a block was opened after a line outside it, never closed, and all lines
\* came through
C8_Witness ==
    /\ SedBlockApplied
    /\ stage.start_pattern = <<"a">>
    /\ stage.end_pattern = <<"b">>
    /\ stage.input = <<<<"x">>, <<"x", "a", "o">>, <<"x">>>>
    /\ lines = stage.input

IsSedExpression(r) ==
    /\ Len(r) >= 5
    /\ SubSeq(r, 1, 2) = <<"s", "/">>
    /\ SubSeq(r, Len(r) - 1, Len(r)) = <<"/", "g">>
    /\ Cardinality({i \in 3..(Len(r) - 2) : r[i] = "/"}) = 1

SedFrom(r) == SubSeq(r, 3, (CHOOSE i \in 3..(Len(r) - 2) : r[i] = "/") - 1)
SedTo(r) == SubSeq(r, (CHOOSE i \in 3..(Len(r) - 2) : r[i] = "/") + 1, Len(r) - 2)

\* C10: sed_block given s/A/B/g as its replacement rewrites the lines between
\* the marker lines of a closed block by that substitution: a line of the
\* block that has A comes out with B in place of A.
C10_SedExpressionRewritesBlock ==
    (SedBlockApplied /\ IsSedExpression(stage.replacement))
        => LET ls == stage.input
               i == FirstLineWith(ls, stage.start_pattern, 1)
               j == IF i = 0 THEN 0 ELSE FirstLineWith(ls, stage.end_pattern, i + 1)
           IN  j # 0 =>
                 \A h \in (i + 1)..(j - 1) :
                     Contains(ls[h], SedFrom(stage.replacement))
                         => Contains(to_string(lines),
                                     replace(ls[h], SedFrom(stage.replacement),
                                             SedTo(stage.replacement)))

====
